---- MODULE Spec2Model ----
(***************************************************************************)
(* Tecindo: the document persistence and consistency engine.               *)
(*                                                                         *)
(* Two stores are kept coherent without a common transaction: the SQLite   *)
(* metadata registry (documents, document_versions, documents_fts, ...)    *)
(* and the .md files on disk.  Every request handler is a sequence of      *)
(* steps over these stores; each step is one action below.                 *)
(***************************************************************************)
EXTENDS Integers, Sequences, FiniteSets, TLC

----------------------------------------------------------------------------
(* Bounds of the model *)

MaxDocs == 3

MaxTime == 4

MaxVersions == 2

MinInterval == 1

MaxRequests == 3

MaxFolders == 2

MaxTags == 2

MaxTokens == 3

(* Program constant: the excerpt is the first 200 characters *)
ExcerptLen == 200

Owners == {"A", "B"}

Procs == {1, 2}

DocIds == 1 .. MaxDocs

(* Absence of a row, of a file, of an index entry *)
NoRow == [live |-> FALSE]

Absent == [exists |-> FALSE]

NoEntry == [indexed |-> FALSE]

(* Markdown texts the clients send: empty, one word, two words *)
TextEmpty == << >>

TextHi == <<"h", "i">>

TextHiHo == <<"h", "i", " ", "h", "o">>

Texts == {TextEmpty, TextHi, TextHiHo}

Titles == {<<"H", "i">>, <<"y", "o">>}

FolderNames == {"diary"}

TagNames == {"rust"}

----------------------------------------------------------------------------
(* services/markdown.rs: counting and the excerpt *)

Min2(a, b) == IF a < b THEN a ELSE b

MaxOf(S) == CHOOSE x \in S : \A y \in S : y <= x

MinOf(S) == CHOOSE x \in S : \A y \in S : x <= y

IsSpace(c) == c = " "

RECURSIVE SplitFrom(_, _, _, _)
SplitFrom(s, i, cur, acc) ==
    IF i > Len(s)
    THEN (IF cur = << >> THEN acc ELSE Append(acc, cur))
    ELSE IF IsSpace(s[i])
         THEN SplitFrom(s, i + 1, << >>, IF cur = << >> THEN acc ELSE Append(acc, cur))
         ELSE SplitFrom(s, i + 1, Append(cur, s[i]), acc)

split_whitespace(s) == SplitFrom(s, 1, << >>, << >>)

count_words(s) == Len(split_whitespace(s))

count_chars(s) == Len(s)

make_excerpt(s) == SubSeq(s, 1, Min2(Len(s), ExcerptLen))

----------------------------------------------------------------------------
(* Content Store: .md files keyed by relative path *)

(* Fault variant: a torn write, only a prefix of the text reaches the disk *)
write_markdown_torn(fs, path, content) ==
    [fs EXCEPT ![path] = [exists |-> TRUE,
                          content |-> SubSeq(content, 1, Min2(Len(content), 2))]]

write_markdown(fs, path, content) ==
    [fs EXCEPT ![path] = [exists |-> TRUE, content |-> content]]

file_exists(fs, path) == fs[path] # Absent

read_markdown(fs, path) == fs[path].content

(* Fault variant: the file is left in place *)
delete_markdown_keep(fs, path) == fs

(* Removing a file that is not there is not an error *)
delete_markdown(fs, path) == [fs EXCEPT ![path] = Absent]

----------------------------------------------------------------------------
(* Search Synchronizer: documents_fts, tokenize = 'porter unicode61' *)

Lower(c) == IF c = "H" THEN "h" ELSE IF c = "U" THEN "u" ELSE c

LowerWord(w) == [k \in 1 .. Len(w) |-> Lower(w[k])]

Tokens(s) == {LowerWord(split_whitespace(s)[k]) : k \in 1 .. Len(split_whitespace(s))}

IsPrefix(t, w) == Len(t) <= Len(w) /\ SubSeq(w, 1, Len(t)) = t

(* A query is one term, optionally a prefix query term* *)
Queries == {[term |-> <<"h">>, prefix |-> TRUE],
            [term |-> <<"h", "o">>, prefix |-> FALSE],
            [term |-> << >>, prefix |-> FALSE]}

Matches(entry, q) ==
    \E w \in Tokens(entry.title) \cup Tokens(entry.content) :
        IF q.prefix THEN IsPrefix(LowerWord(q.term), w) ELSE w = LowerWord(q.term)

(* Fault variant: an existing entry keeps the title it was indexed with *)
fts_index_stale_title(fts, id, title, content) ==
    [fts EXCEPT ![id] = [title |-> IF fts[id] = NoEntry THEN title ELSE fts[id].title,
                         content |-> content]]

fts_index(fts, id, title, content) ==
    [fts EXCEPT ![id] = [title |-> title, content |-> content]]

fts_remove(fts, id) == [fts EXCEPT ![id] = NoEntry]

----------------------------------------------------------------------------
(* Version Snapshot Engine: document_versions *)

VersionsOf(vs, d) == {v \in vs : v.document_id = d}

VersionNumbers(vs, d) == {v.version_number : v \in VersionsOf(vs, d)}

latest_version(vs, d) ==
    CHOOSE v \in VersionsOf(vs, d) :
        \A w \in VersionsOf(vs, d) : w.version_number <= v.version_number

(* Fault variant: the number is taken from the oldest stored version *)
next_version_number_from_oldest(vs, d) ==
    IF VersionsOf(vs, d) = {} THEN 1 ELSE 1 + MinOf(VersionNumbers(vs, d))

next_version_number(vs, d) ==
    IF VersionsOf(vs, d) = {} THEN 1 ELSE 1 + MaxOf(VersionNumbers(vs, d))

(* Fault variant: retention drops the newest versions instead of the oldest *)
prune_newest(vs, d) ==
    {v \in vs : v.document_id = d =>
        Cardinality({w \in VersionsOf(vs, d) : w.version_number < v.version_number})
            < MaxVersions}

(* Retention: the oldest versions beyond MAX_DOCUMENT_VERSIONS are deleted *)
prune_versions(vs, d) ==
    {v \in vs : v.document_id = d =>
        Cardinality({w \in VersionsOf(vs, d) : w.version_number > v.version_number})
            < MaxVersions}

create_version(vs, d, content, t) ==
    prune_versions(vs \cup {[document_id |-> d,
                             version_number |-> next_version_number(vs, d),
                             content |-> content,
                             word_count |-> count_words(content),
                             char_count |-> count_chars(content),
                             created_at |-> t]}, d)

(* Fault variant: the interval is not consulted *)
interval_ignored(vs, d, t) == TRUE

(* Throttle: VERSION_INTERVAL_MINUTES since the latest version *)
interval_elapsed(vs, d, t) ==
    IF VersionsOf(vs, d) = {}
    THEN TRUE
    ELSE t - latest_version(vs, d).created_at > MinInterval

should_snapshot(vs, d, prev, new, t) ==
    prev # new /\ interval_elapsed(vs, d, t)

(* Fault variant: the no-op rule is not applied *)
never_same(vs, d, content) == FALSE

(* No-op rule of the forced snapshot: byte-identical to the latest version *)
same_as_latest(vs, d, content) ==
    IF VersionsOf(vs, d) = {} THEN FALSE ELSE latest_version(vs, d).content = content

(* ON DELETE CASCADE of document_versions.document_id *)
cascade_versions(vs, d) == {v \in vs : v.document_id # d}

(* ON DELETE CASCADE of document_tags.tag_id and document_tags.document_id *)
cascade_tag_links(links, t) == {l \in links : l.tag_id # t}

cascade_document_links(links, d) == {l \in links : l.document_id # d}

(* Fault variant: the sessions of a deleted document stay *)
keep_sessions(ws, d) == ws

(* ON DELETE CASCADE of writing_sessions.document_id *)
cascade_sessions(ws, d) == {w \in ws : w.document_id # d}

----------------------------------------------------------------------------
(* State *)

VARIABLES
    documents,          \* documents table: id -> row or NoRow
    files,              \* content store: path -> text or Absent
    documents_fts,      \* FTS index: id -> [title, content] or NoEntry
    document_versions,  \* document_versions table: set of rows
    req,                \* in-flight request of each connection
    resp,               \* response sent by the last step, NoResp if none
    nextDoc,            \* next fresh document id
    started,            \* number of mutating requests accepted so far
    now,                \* clock
    folders,            \* folders table: sequence of rows, id = position
    tags,               \* tags table: sequence of rows, id = position
    document_tags,      \* document_tags table: set of [document_id, tag_id]
    inconsistencies,    \* outstanding logged inconsistencies [doc, kind]
    lastSet,            \* history: last content write of each document
    issued,             \* history: highest version number issued per document
    lastAuto,           \* history: time of the last automatic snapshot
    detached,           \* history: what the last deleteFolder detached
    localStorage,       \* browser: the stored access_token and refresh_token
    location,           \* browser: window.location
    calls,              \* browser: the requests in flight, one per slot
    sessions,           \* server: the tokens it accepts, next token to issue
    editor,             \* browser: the Editor component, its timer, the saves it sent
    route,              \* browser: authStore.isAuthenticated and the ProtectedRoute
    writing_sessions,   \* writing_sessions table: set of [id, document_id, ended]
    searchBar           \* browser: the SearchBar component and its requests

vars == <<documents, files, documents_fts, document_versions, req, resp,
          nextDoc, started, now, folders, tags, document_tags, inconsistencies, lastSet,
          issued, lastAuto, detached, localStorage, location, calls, sessions,
          editor, route, writing_sessions, searchBar>>

(* The server's stores, which the browser's own steps leave alone *)
storeVars == <<documents, files, documents_fts, document_versions, req, resp,
               nextDoc, started, now, folders, tags, document_tags, inconsistencies,
               lastSet, issued, lastAuto, detached, writing_sessions>>

(* Tokens are numbered as issued; 0 is "no token" *)
NoTokens == [access_token |-> 0, refresh_token |-> 0]

NoCall == [pc |-> "idle", url |-> "-", wrapped |-> FALSE, token |-> 0,
           refreshToken |-> 0, auth |-> 0, status |-> 0]

(* A page has just been loaded: the store is new, nothing is rendered *)
PageLoad == [isAuthenticated |-> FALSE, accessToken |-> 0, refreshToken |-> 0,
             initialized |-> FALSE, effect |-> FALSE, shown |-> "unmounted"]

NoTimer == [set |-> FALSE, id |-> 0, markdown |-> << >>]

NoSave == [id |-> 0, content |-> << >>]

(* The Editor is mounted and no document is open.  saves are the
   updateDocumentContent requests under way: at 0 on the network, at p taken by
   connection p of the server.  retry is the document whose content the Retry
   button asked for.  History: typed and edited, the last text the user typed
   into each document and whether there is one; dirty, whether a save carrying
   it is still owed; sent, the save issued last; shown, the document whose
   fetched content was put into the editor last; outcome, how the save that
   returned last ended; lost, whether a save has failed *)
EditorClosed ==
    editor = [currentDocument |-> 0, content |-> << >>, saveTimeout |-> NoTimer,
              loading |-> 0, sent |-> NoSave,
              typed |-> [d \in DocIds |-> << >>],
              dirty |-> [d \in DocIds |-> FALSE],
              edited |-> [d \in DocIds |-> FALSE],
              saves |-> {}, saveStatus |-> "idle", savedTimer |-> FALSE,
              retry |-> 0, loadError |-> FALSE,
              shown |-> 0, outcome |-> "none", lost |-> FALSE,
              fetches |-> [d \in DocIds |-> 0], storeLoading |-> FALSE,
              asked |-> 0, fetchFailed |-> FALSE]

NoDebounce == [set |-> FALSE, query |-> << >>]

(* SearchBar.tsx lines 34-38: the component is mounted.  requests are the
   searches under way; of is history, the query whose answer set the results
   last *)
SearchBarMounted ==
    searchBar = [query |-> << >>, debounce |-> NoDebounce, requests |-> {},
                 results |-> {}, showResults |-> FALSE, loading |-> FALSE,
                 of |-> << >>]

(* The user is logged in with the first token pair *)
LoggedIn ==
    /\ localStorage = [access_token |-> 1, refresh_token |-> 1]
    /\ location = "app"
    /\ calls = [p \in Procs |-> NoCall]
    /\ sessions = [access |-> {1}, refresh |-> {1}, next |-> 2]

Idle == [op |-> "none", owner |-> "-", doc |-> 0, arg |-> << >>, pc |-> "idle",
         prev |-> << >>, folder |-> 0, number |-> 0]

NoResp == [op |-> "none", owner |-> "-", doc |-> 0, status |-> "none", body |-> << >>]

NoWrite == [text |-> << >>, returned |-> FALSE]

NoDetach == [folder |-> 0, documents |-> {}, folders |-> {}]

Init ==
    /\ documents = [d \in DocIds |-> NoRow]
    /\ files = [d \in DocIds |-> Absent]
    /\ documents_fts = [d \in DocIds |-> NoEntry]
    /\ document_versions = {}
    /\ req = [p \in Procs |-> Idle]
    /\ resp = NoResp
    /\ nextDoc = 1
    /\ started = 0
    /\ now = 0
    /\ folders = << >>
    /\ tags = << >>
    /\ document_tags = {}
    /\ inconsistencies = {}
    /\ lastSet = [d \in DocIds |-> NoWrite]
    /\ issued = [d \in DocIds |-> 0]
    /\ lastAuto = [d \in DocIds |-> -1]
    /\ detached = NoDetach
    /\ LoggedIn
    /\ EditorClosed
    /\ route = PageLoad
    /\ writing_sessions = {}
    /\ SearchBarMounted

Reply(op, o, d, status, body) ==
    [op |-> op, owner |-> o, doc |-> d, status |-> status, body |-> body]

(* Fault variant: lookup by id alone *)
get_document_any(docs, o, d) ==
    IF d \in DocIds /\ docs[d] # NoRow THEN docs[d] ELSE NoRow

(* Every query is scoped by the authenticated user: WHERE id = ? AND user_id = ? *)
get_document(docs, o, d) ==
    IF d \in DocIds /\ docs[d] # NoRow /\ docs[d].user_id = o THEN docs[d] ELSE NoRow

(* The caller's document exists and so does its file *)
has_content(o, d) ==
    IF get_document(documents, o, d) = NoRow
    THEN FALSE
    ELSE file_exists(files, documents[d].file_path)

(* Fault variant: no serialization at all *)
no_serialization(d) == TRUE

(* Per-document serialization of the mutating sequences *)
doc_free(d) == \A p \in Procs : req[p].pc = "idle" \/ req[p].doc # d

Busy(p, op, o, d, x, pc, prev) ==
    [req EXCEPT ![p] = [op |-> op, owner |-> o, doc |-> d, arg |-> x, pc |-> pc,
                        prev |-> prev, folder |-> 0, number |-> 0]]

Done(p) == [req EXCEPT ![p] = Idle]

Log(d, kind) == inconsistencies \cup {[doc |-> d, kind |-> kind]}

Reconciled(d, kind) == inconsistencies \ {[doc |-> d, kind |-> kind]}

----------------------------------------------------------------------------
(* POST /documents: create_document *)

(* Step 3: db::get_folder gives the folder's slug for the path, or none; the
   request goes on either way.  folder_id 0 stands for no folder_id. *)
get_folder(fs, o, f) ==
    IF f \in 1 .. Len(fs) /\ fs[f] # NoRow /\ fs[f].user_id = o THEN fs[f] ELSE NoRow

(* parent_id and folder_id are 0 for NULL *)
parent_ok(o, par) ==
    IF par = 0 THEN TRUE ELSE get_folder(folders, o, par) # NoRow

(* folder_id REFERENCES folders(id): NULL or the id of a row *)
folder_ref_ok(fs, f) ==
    IF f = 0 THEN TRUE ELSE IF f \in 1 .. Len(fs) THEN fs[f] # NoRow ELSE FALSE

(* Step 5: services::write_markdown(documents_path, file_path, "") *)
CD_Write(p, o, t, f) ==
    /\ req[p].pc = "idle"
    /\ started < MaxRequests
    /\ started' = started + 1
    /\ nextDoc <= MaxDocs
    /\ files' = write_markdown(files, nextDoc, TextEmpty)
    /\ nextDoc' = nextDoc + 1
    /\ req' = [Busy(p, "createDocument", o, nextDoc, t, "cd_insert", << >>)
                  EXCEPT ![p].folder = f]
    /\ resp' = NoResp
    /\ UNCHANGED <<searchBar, writing_sessions, route, editor, localStorage, location, calls, sessions, detached, folders, tags, document_tags, documents, documents_fts, document_versions, now,
                   inconsistencies, lastSet, issued, lastAuto>>

(* POST /documents without a title: "Untitled", or "Untitled_k" with the lowest
   k >= 2 that no document of the caller in that folder carries *)
Untitled == <<"U", "n", "t", "i", "t", "l", "e", "d">>

DigitChars == <<"0", "1", "2", "3", "4", "5", "6", "7", "8", "9">>

RECURSIVE to_string(_)
to_string(k) ==
    IF k < 10 THEN <<DigitChars[k + 1]>>
    ELSE Append(to_string(k \div 10), DigitChars[(k % 10) + 1])

untitled_k(k) == IF k = 1 THEN Untitled ELSE Untitled \o <<"_">> \o to_string(k)

titles_in_folder(docs, o, f) ==
    {docs[d].title : d \in {e \in DocIds : /\ docs[e] # NoRow
                                           /\ docs[e].user_id = o
                                           /\ docs[e].folder_id = f}}

(* Fault variant: numbers by how many documents the folder holds *)
title_by_count(taken, k) == untitled_k(Cardinality(taken) + 1)

RECURSIVE first_unused(_, _)
first_unused(taken, k) ==
    IF untitled_k(k) \notin taken THEN untitled_k(k) ELSE first_unused(taken, k + 1)

unique_title(docs, o, f) == first_unused(titles_in_folder(docs, o, f), 1)

CD_WriteUntitled(p, o, f) == CD_Write(p, o, unique_title(documents, o, f), f)

(* Fault variant: the row is inserted first and stays when the write fails *)
CD_WriteFailRowLeft(p, o, t) ==
    /\ req[p].pc = "idle"
    /\ nextDoc <= MaxDocs
    /\ documents' = [documents EXCEPT ![nextDoc] =
                        [user_id |-> o, folder_id |-> 0, title |-> t,
                         file_path |-> nextDoc, word_count |-> 0, char_count |-> 0,
                         excerpt |-> TextEmpty,
                         is_pinned |-> FALSE,
                         is_archived |-> FALSE]]
    /\ nextDoc' = nextDoc + 1
    /\ resp' = Reply("createDocument", o, nextDoc, "StorageIOError", << >>)
    /\ UNCHANGED <<searchBar, writing_sessions, route, editor, localStorage, location, calls, sessions, detached, folders, tags, document_tags, started, files, documents_fts,
                   document_versions, req, now, inconsistencies, lastSet, issued, lastAuto>>

(* std::io::Error -> AppError::Io: nothing was written *)
CD_WriteFail(p, o, t) ==
    /\ req[p].pc = "idle"
    /\ nextDoc <= MaxDocs
    /\ resp' = Reply("createDocument", o, nextDoc, "StorageIOError", << >>)
    /\ UNCHANGED <<searchBar, writing_sessions, route, editor, localStorage, location, calls, sessions, detached, folders, tags, document_tags, started, documents, files, documents_fts, document_versions, req, nextDoc,
                   now, inconsistencies, lastSet, issued, lastAuto>>

(* Step 6: db::create_document, INSERT INTO documents; folder_id must name a
   folders row *)
CD_Insert(p) ==
    /\ req[p].pc = "cd_insert"
    /\ folder_ref_ok(folders, req[p].folder)
    /\ documents' = [documents EXCEPT ![req[p].doc] =
                        [user_id |-> req[p].owner,
                         folder_id |-> req[p].folder,
                         title |-> req[p].arg,
                         file_path |-> req[p].doc,
                         word_count |-> 0,
                         char_count |-> 0,
                         excerpt |-> TextEmpty,
                         is_pinned |-> FALSE,
                         is_archived |-> FALSE]]
    /\ resp' = Reply("createDocument", req[p].owner, req[p].doc, "ok", req[p].arg)
    /\ req' = Done(p)
    /\ UNCHANGED <<searchBar, writing_sessions, route, editor, localStorage, location, calls, sessions, detached, folders, tags, document_tags, started, files, documents_fts, document_versions, nextDoc, now,
                   inconsistencies, lastSet, issued, lastAuto>>

(* sqlx::Error -> AppError::Database: the file written in step 5 stays *)
CD_InsertFail(p) ==
    /\ req[p].pc = "cd_insert"
    /\ resp' = Reply("createDocument", req[p].owner, req[p].doc, "DatabaseError", << >>)
    /\ req' = Done(p)
    /\ UNCHANGED <<searchBar, writing_sessions, route, editor, localStorage, location, calls, sessions, detached, folders, tags, document_tags, started, documents, files, documents_fts, document_versions, nextDoc, now, inconsistencies, lastSet, issued, lastAuto>>

----------------------------------------------------------------------------
(* PUT /documents/:id/content: update_document_content *)

SC_NotFound(p, o, d, x) ==
    /\ req[p].pc = "idle"
    /\ doc_free(d)
    /\ ~has_content(o, d)
    /\ resp' = Reply("setContent", o, d, "NotFound", << >>)
    /\ UNCHANGED <<searchBar, writing_sessions, route, editor, localStorage, location, calls, sessions, detached, folders, tags, document_tags, started, documents, files, documents_fts, document_versions, req, nextDoc,
                   now, inconsistencies, lastSet, issued, lastAuto>>

(* (1) read the current content *)
SC_Read(p, o, d, x) ==
    /\ req[p].pc = "idle"
    /\ started < MaxRequests
    /\ started' = started + 1
    /\ doc_free(d)
    /\ has_content(o, d)
    /\ req' = Busy(p, "setContent", o, d, x, "sc_snapshot",
                   read_markdown(files, documents[d].file_path))
    /\ resp' = NoResp
    /\ UNCHANGED <<searchBar, writing_sessions, route, editor, localStorage, location, calls, sessions, detached, folders, tags, document_tags, documents, files, documents_fts, document_versions, nextDoc,
                   now, inconsistencies, lastSet, issued, lastAuto>>

(* Fault variant: the snapshot holds the text being saved *)
SC_SnapshotNew(p) ==
    /\ req[p].pc = "sc_snapshot"
    /\ LET d == req[p].doc
           take == should_snapshot(document_versions, d, req[p].prev, req[p].arg, now)
       IN  /\ document_versions' =
                  IF take
                  THEN create_version(document_versions, d, req[p].arg, now)
                  ELSE document_versions
           /\ issued' = IF take
                        THEN [issued EXCEPT ![d] = next_version_number(document_versions, d)]
                        ELSE issued
           /\ lastAuto' = IF take THEN [lastAuto EXCEPT ![d] = now] ELSE lastAuto
    /\ req' = [req EXCEPT ![p].pc = "sc_write"]
    /\ resp' = NoResp
    /\ UNCHANGED <<searchBar, writing_sessions, route, editor, localStorage, location, calls, sessions, detached, folders, tags, document_tags, started, documents, files, documents_fts, nextDoc, now, inconsistencies,
                   lastSet>>

(* (2) conditionally snapshot the previous content *)
SC_Snapshot(p) ==
    /\ req[p].pc = "sc_snapshot"
    /\ LET d == req[p].doc
           take == should_snapshot(document_versions, d, req[p].prev, req[p].arg, now)
       IN  /\ document_versions' =
                  IF take
                  THEN create_version(document_versions, d, req[p].prev, now)
                  ELSE document_versions
           /\ issued' = IF take
                        THEN [issued EXCEPT ![d] = next_version_number(document_versions, d)]
                        ELSE issued
           /\ lastAuto' = IF take THEN [lastAuto EXCEPT ![d] = now] ELSE lastAuto
    /\ req' = [req EXCEPT ![p].pc = "sc_write"]
    /\ resp' = NoResp
    /\ UNCHANGED <<searchBar, writing_sessions, route, editor, localStorage, location, calls, sessions, detached, folders, tags, document_tags, started, documents, files, documents_fts, nextDoc, now, inconsistencies,
                   lastSet>>

(* (3) overwrite the file *)
SC_Write(p) ==
    /\ req[p].pc = "sc_write"
    /\ files' = write_markdown(files, documents[req[p].doc].file_path, req[p].arg)
    /\ lastSet' = [lastSet EXCEPT ![req[p].doc] =
                      [text |-> req[p].arg, returned |-> FALSE]]
    /\ req' = [req EXCEPT ![p].pc = "sc_meta"]
    /\ resp' = NoResp
    /\ UNCHANGED <<searchBar, writing_sessions, route, editor, localStorage, location, calls, sessions, detached, folders, tags, document_tags, started, documents, documents_fts, document_versions, nextDoc, now,
                   inconsistencies, issued, lastAuto>>

(* Fault variant: the failing write has already truncated the file *)
SC_WriteFailTorn(p) ==
    /\ req[p].pc = "sc_write"
    /\ files' = write_markdown(files, documents[req[p].doc].file_path, TextEmpty)
    /\ resp' = Reply("setContent", req[p].owner, req[p].doc, "StorageIOError", << >>)
    /\ req' = Done(p)
    /\ UNCHANGED <<searchBar, writing_sessions, route, editor, localStorage, location, calls, sessions, detached, folders, tags, document_tags, started, documents, documents_fts, document_versions,
                   nextDoc, now, inconsistencies, lastSet, issued, lastAuto>>

(* (3) fails: abort before touching the metadata *)
SC_WriteFail(p) ==
    /\ req[p].pc = "sc_write"
    /\ resp' = Reply("setContent", req[p].owner, req[p].doc, "StorageIOError", << >>)
    /\ req' = Done(p)
    /\ UNCHANGED <<searchBar, writing_sessions, route, editor, localStorage, location, calls, sessions, detached, folders, tags, document_tags, started, documents, files, documents_fts, document_versions, nextDoc, now, inconsistencies, lastSet, issued, lastAuto>>

(* Fault variant: the counts are taken from the text read in step 1 *)
SC_MetaStale(p) ==
    /\ req[p].pc = "sc_meta"
    /\ documents' = [documents EXCEPT ![req[p].doc] =
                        [@ EXCEPT !.word_count = count_words(req[p].prev),
                                  !.char_count = count_chars(req[p].prev),
                                  !.excerpt = make_excerpt(req[p].prev)]]
    /\ inconsistencies' = Reconciled(req[p].doc, "counts")
    /\ req' = [req EXCEPT ![p].pc = "sc_index"]
    /\ resp' = NoResp
    /\ UNCHANGED <<searchBar, writing_sessions, route, editor, localStorage, location, calls, sessions, detached, folders, tags, document_tags, started, files, documents_fts, document_versions, nextDoc, now,
                   lastSet, issued, lastAuto>>

(* (4) recompute word_count, char_count, excerpt and update the row *)
SC_Meta(p) ==
    /\ req[p].pc = "sc_meta"
    /\ documents' = [documents EXCEPT ![req[p].doc] =
                        [@ EXCEPT !.word_count = count_words(req[p].arg),
                                  !.char_count = count_chars(req[p].arg),
                                  !.excerpt = make_excerpt(req[p].arg)]]
    /\ inconsistencies' = Reconciled(req[p].doc, "counts")
    /\ req' = [req EXCEPT ![p].pc = "sc_index"]
    /\ resp' = NoResp
    /\ UNCHANGED <<searchBar, writing_sessions, route, editor, localStorage, location, calls, sessions, detached, folders, tags, document_tags, started, files, documents_fts, document_versions, nextDoc, now,
                   lastSet, issued, lastAuto>>

(* Fault variant: the failed metadata update fails the call *)
SC_MetaFailAbort(p) ==
    /\ req[p].pc = "sc_meta"
    /\ inconsistencies' = Log(req[p].doc, "counts")
    /\ req' = Done(p)
    /\ resp' = Reply("setContent", req[p].owner, req[p].doc, "DatabaseError", << >>)
    /\ UNCHANGED <<searchBar, writing_sessions, route, editor, localStorage, location, calls, sessions, detached, folders, tags, document_tags, started, documents, files, documents_fts, document_versions, nextDoc, now, lastSet, issued, lastAuto>>

(* (4) fails: logged inconsistency, the call goes on *)
SC_MetaFail(p) ==
    /\ req[p].pc = "sc_meta"
    /\ inconsistencies' = Log(req[p].doc, "counts")
    /\ req' = [req EXCEPT ![p].pc = "sc_index"]
    /\ resp' = NoResp
    /\ UNCHANGED <<searchBar, writing_sessions, route, editor, localStorage, location, calls, sessions, detached, folders, tags, document_tags, started, documents, files, documents_fts, document_versions, nextDoc, now, lastSet, issued, lastAuto>>

(* (5) re-index *)
SC_Index(p) ==
    /\ req[p].pc = "sc_index"
    /\ documents_fts' = fts_index(documents_fts, req[p].doc,
                                  documents[req[p].doc].title, req[p].arg)
    /\ inconsistencies' = Reconciled(req[p].doc, "search")
    /\ lastSet' = [lastSet EXCEPT ![req[p].doc].returned = TRUE]
    /\ resp' = Reply("setContent", req[p].owner, req[p].doc, "ok", req[p].arg)
    /\ req' = Done(p)
    /\ UNCHANGED <<searchBar, writing_sessions, route, editor, localStorage, location, calls, sessions, detached, folders, tags, document_tags, started, documents, files, document_versions, nextDoc, now, issued,
                   lastAuto>>

(* (5) fails: search is stale, the call is reported as successful *)
SC_IndexFail(p) ==
    /\ req[p].pc = "sc_index"
    /\ inconsistencies' = Log(req[p].doc, "search")
    /\ lastSet' = [lastSet EXCEPT ![req[p].doc].returned = TRUE]
    /\ resp' = Reply("setContent", req[p].owner, req[p].doc, "ok", req[p].arg)
    /\ req' = Done(p)
    /\ UNCHANGED <<searchBar, writing_sessions, route, editor, localStorage, location, calls, sessions, detached, folders, tags, document_tags, started, documents, files, documents_fts, document_versions, nextDoc, now, issued, lastAuto>>

----------------------------------------------------------------------------
(* GET /documents/:id/content *)

get_document_content(o, d) ==
    /\ resp' = IF has_content(o, d)
               THEN Reply("getContent", o, d, "ok",
                          read_markdown(files, documents[d].file_path))
               ELSE Reply("getContent", o, d, "NotFound", << >>)
    /\ UNCHANGED <<searchBar, writing_sessions, route, editor, localStorage, location, calls, sessions, detached, folders, tags, document_tags, started, documents, files, documents_fts, document_versions, req, nextDoc,
                   now, inconsistencies, lastSet, issued, lastAuto>>

----------------------------------------------------------------------------
(* DELETE /documents/:id *)

DD_NotFound(p, o, d) ==
    /\ req[p].pc = "idle"
    /\ doc_free(d)
    /\ get_document(documents, o, d) = NoRow
    /\ resp' = Reply("deleteDocument", o, d, "NotFound", << >>)
    /\ UNCHANGED <<searchBar, writing_sessions, route, editor, localStorage, location, calls, sessions, detached, folders, tags, document_tags, started, documents, files, documents_fts, document_versions, req, nextDoc,
                   now, inconsistencies, lastSet, issued, lastAuto>>

(* Fault variant: the search entry is not removed *)
DD_UnindexSkipped(p, o, d) ==
    /\ req[p].pc = "idle"
    /\ started < MaxRequests
    /\ started' = started + 1
    /\ doc_free(d)
    /\ get_document(documents, o, d) # NoRow
    /\ req' = Busy(p, "deleteDocument", o, d, documents[d].file_path, "dd_row", << >>)
    /\ resp' = NoResp
    /\ UNCHANGED <<searchBar, writing_sessions, route, editor, localStorage, location, calls, sessions, detached, folders, tags, document_tags, documents, files, documents_fts, document_versions,
                   nextDoc, now, inconsistencies, lastSet, issued, lastAuto>>

(* Fault variant: the file is deleted first, while the row still names it *)
DD_FileFirst(p, o, d) ==
    /\ req[p].pc = "idle"
    /\ started < MaxRequests
    /\ started' = started + 1
    /\ doc_free(d)
    /\ get_document(documents, o, d) # NoRow
    /\ files' = delete_markdown(files, documents[d].file_path)
    /\ documents_fts' = fts_remove(documents_fts, d)
    /\ req' = Busy(p, "deleteDocument", o, d, documents[d].file_path, "dd_row", << >>)
    /\ resp' = NoResp
    /\ UNCHANGED <<searchBar, writing_sessions, route, editor, localStorage, location, calls, sessions, detached, folders, tags, document_tags, documents, document_versions, nextDoc, now,
                   inconsistencies, lastSet, issued, lastAuto>>

(* (1) remove the search entry *)
DD_Unindex(p, o, d) ==
    /\ req[p].pc = "idle"
    /\ started < MaxRequests
    /\ started' = started + 1
    /\ doc_free(d)
    /\ get_document(documents, o, d) # NoRow
    /\ documents_fts' = fts_remove(documents_fts, d)
    /\ req' = Busy(p, "deleteDocument", o, d, documents[d].file_path, "dd_row", << >>)
    /\ resp' = NoResp
    /\ UNCHANGED <<searchBar, writing_sessions, route, editor, localStorage, location, calls, sessions, detached, folders, tags, document_tags, documents, files, document_versions, nextDoc, now,
                   inconsistencies, lastSet, issued, lastAuto>>

(* (2) delete the row; document_versions go with it (ON DELETE CASCADE) *)
DD_Row(p) ==
    /\ req[p].pc = "dd_row"
    /\ documents' = [documents EXCEPT ![req[p].doc] = NoRow]
    /\ document_versions' = cascade_versions(document_versions, req[p].doc)
    /\ inconsistencies' = {i \in inconsistencies : i.doc # req[p].doc}
    /\ lastSet' = [lastSet EXCEPT ![req[p].doc] = NoWrite]
    /\ document_tags' = cascade_document_links(document_tags, req[p].doc)
    /\ writing_sessions' = cascade_sessions(writing_sessions, req[p].doc)
    /\ req' = [req EXCEPT ![p].pc = "dd_file"]
    /\ resp' = NoResp
    /\ UNCHANGED <<searchBar, route, editor, localStorage, location, calls, sessions, detached, folders, tags, started, files, documents_fts, nextDoc, now, issued, lastAuto>>

(* (2) fails: the row stays, its search entry is already gone *)
DD_RowFail(p) ==
    /\ req[p].pc = "dd_row"
    /\ inconsistencies' = Log(req[p].doc, "search")
    /\ resp' = Reply("deleteDocument", req[p].owner, req[p].doc, "DatabaseError", << >>)
    /\ req' = Done(p)
    /\ UNCHANGED <<searchBar, writing_sessions, route, editor, localStorage, location, calls, sessions, detached, folders, tags, document_tags, started, documents, files, documents_fts, document_versions, nextDoc, now, lastSet, issued, lastAuto>>

(* (3) delete the file *)
DD_File(p) ==
    /\ req[p].pc = "dd_file"
    /\ files' = delete_markdown(files, req[p].arg)
    /\ resp' = Reply("deleteDocument", req[p].owner, req[p].doc, "ok", << >>)
    /\ req' = Done(p)
    /\ UNCHANGED <<searchBar, writing_sessions, route, editor, localStorage, location, calls, sessions, detached, folders, tags, document_tags, started, documents, documents_fts, document_versions, nextDoc, now,
                   inconsistencies, lastSet, issued, lastAuto>>

(* (3) fails: an orphan file with no referencing row is left *)
DD_FileFail(p) ==
    /\ req[p].pc = "dd_file"
    /\ resp' = Reply("deleteDocument", req[p].owner, req[p].doc, "StorageIOError", << >>)
    /\ req' = Done(p)
    /\ UNCHANGED <<searchBar, writing_sessions, route, editor, localStorage, location, calls, sessions, detached, folders, tags, document_tags, started, documents, files, documents_fts, document_versions, nextDoc, now, inconsistencies, lastSet, issued, lastAuto>>

----------------------------------------------------------------------------
(* PATCH /documents/:id with a title *)

UM_NotFound(p, o, d) ==
    /\ req[p].pc = "idle"
    /\ doc_free(d)
    /\ get_document(documents, o, d) = NoRow
    /\ resp' = Reply("updateDocumentMeta", o, d, "NotFound", << >>)
    /\ UNCHANGED <<searchBar, writing_sessions, route, editor, localStorage, location, calls, sessions, detached, folders, tags, document_tags, started, documents, files, documents_fts, document_versions, req, nextDoc,
                   now, inconsistencies, lastSet, issued, lastAuto>>

UM_Row(p, o, d, t) ==
    /\ req[p].pc = "idle"
    /\ started < MaxRequests
    /\ started' = started + 1
    /\ doc_free(d)
    /\ get_document(documents, o, d) # NoRow
    /\ documents' = [documents EXCEPT ![d].title = t]
    /\ req' = Busy(p, "updateDocumentMeta", o, d, t, "um_index", << >>)
    /\ resp' = NoResp
    /\ UNCHANGED <<searchBar, writing_sessions, route, editor, localStorage, location, calls, sessions, detached, folders, tags, document_tags, files, documents_fts, document_versions, nextDoc, now,
                   inconsistencies, lastSet, issued, lastAuto>>

(* the title changed: re-derive the search entry *)
UM_Index(p) ==
    /\ req[p].pc = "um_index"
    /\ documents_fts' = fts_index(documents_fts, req[p].doc, req[p].arg,
                                  read_markdown(files, documents[req[p].doc].file_path))
    /\ inconsistencies' = Reconciled(req[p].doc, "search")
    /\ resp' = Reply("updateDocumentMeta", req[p].owner, req[p].doc, "ok", req[p].arg)
    /\ req' = Done(p)
    /\ UNCHANGED <<searchBar, writing_sessions, route, editor, localStorage, location, calls, sessions, detached, folders, tags, document_tags, started, documents, files, document_versions, nextDoc, now, lastSet,
                   issued, lastAuto>>

UM_IndexFail(p) ==
    /\ req[p].pc = "um_index"
    /\ inconsistencies' = Log(req[p].doc, "search")
    /\ resp' = Reply("updateDocumentMeta", req[p].owner, req[p].doc, "ok", req[p].arg)
    /\ req' = Done(p)
    /\ UNCHANGED <<searchBar, writing_sessions, route, editor, localStorage, location, calls, sessions, detached, folders, tags, document_tags, started, documents, files, documents_fts, document_versions, nextDoc, now, lastSet, issued, lastAuto>>

----------------------------------------------------------------------------
(* PATCH /documents/:id { folder_id }: move, metadata only.  0 moves to the root. *)
UM_MoveNotFound(p, o, d, f) ==
    /\ req[p].pc = "idle"
    /\ doc_free(d)
    /\ get_document(documents, o, d) = NoRow \/ ~parent_ok(o, f)
    /\ resp' = Reply("moveDocument", o, d, "NotFound", << >>)
    /\ UNCHANGED <<searchBar, writing_sessions, route, editor, localStorage, location, calls, sessions, detached, folders, tags, document_tags, started, documents, files, documents_fts,
                   document_versions, req, nextDoc, now, inconsistencies, lastSet,
                   issued, lastAuto>>

(* Fault variant: the move re-indexes the document with no content *)
UM_MoveReindexed(p, o, d, f) ==
    /\ req[p].pc = "idle"
    /\ started < MaxRequests
    /\ started' = started + 1
    /\ doc_free(d)
    /\ get_document(documents, o, d) # NoRow
    /\ parent_ok(o, f)
    /\ documents' = [documents EXCEPT ![d].folder_id = f]
    /\ documents_fts' = fts_index(documents_fts, d, documents[d].title, TextEmpty)
    /\ resp' = Reply("moveDocument", o, d, "ok", f)
    /\ UNCHANGED <<searchBar, writing_sessions, route, editor, localStorage, location, calls, sessions, detached, folders, tags, document_tags, files, document_versions,
                   req, nextDoc, now, inconsistencies, lastSet, issued, lastAuto>>

UM_Move(p, o, d, f) ==
    /\ req[p].pc = "idle"
    /\ started < MaxRequests
    /\ started' = started + 1
    /\ doc_free(d)
    /\ get_document(documents, o, d) # NoRow
    /\ parent_ok(o, f)
    /\ documents' = [documents EXCEPT ![d].folder_id = f]
    /\ resp' = Reply("moveDocument", o, d, "ok", f)
    /\ UNCHANGED <<searchBar, writing_sessions, route, editor, localStorage, location, calls, sessions, detached, folders, tags, document_tags, files, documents_fts, document_versions,
                   req, nextDoc, now, inconsistencies, lastSet, issued, lastAuto>>

(* PATCH /documents/:id { is_pinned, is_archived }: metadata only *)
UM_Flags(p, o, d, pin, arch) ==
    /\ req[p].pc = "idle"
    /\ started < MaxRequests
    /\ started' = started + 1
    /\ doc_free(d)
    /\ get_document(documents, o, d) # NoRow
    /\ documents' = [documents EXCEPT ![d].is_pinned = pin, ![d].is_archived = arch]
    /\ resp' = Reply("setFlags", o, d, "ok", << >>)
    /\ UNCHANGED <<searchBar, writing_sessions, route, editor, localStorage, location, calls, sessions, detached, folders, tags, document_tags, files, documents_fts, document_versions,
                   req, nextDoc, now, inconsistencies, lastSet, issued, lastAuto>>

----
(* GET /search?q= *)

SearchHits(o, q) ==
    {d \in DocIds : /\ documents_fts[d] # NoEntry
                    /\ documents[d] # NoRow
                    /\ documents[d].user_id = o
                    /\ Matches(documents_fts[d], q)}

search(o, q) ==
    /\ resp' = IF split_whitespace(q.term) = << >>
               THEN Reply("search", o, 0, "ValidationError", {})
               ELSE Reply("search", o, 0, "ok", SearchHits(o, q))
    /\ UNCHANGED <<searchBar, writing_sessions, route, editor, localStorage, location, calls, sessions, detached, folders, tags, document_tags, started, documents, files, documents_fts, document_versions, req, nextDoc,
                   now, inconsistencies, lastSet, issued, lastAuto>>

----------------------------------------------------------------------------
(* GET and POST /documents/:id/versions *)

list_versions(o, d) ==
    /\ resp' = IF get_document(documents, o, d) # NoRow
               THEN Reply("listVersions", o, d, "ok",
                          VersionNumbers(document_versions, d))
               ELSE Reply("listVersions", o, d, "NotFound", {})
    /\ UNCHANGED <<searchBar, writing_sessions, route, editor, localStorage, location, calls, sessions, detached, folders, tags, document_tags, started, documents, files, documents_fts, document_versions, req, nextDoc,
                   now, inconsistencies, lastSet, issued, lastAuto>>

SN_NotFound(o, d) ==
    /\ get_document(documents, o, d) = NoRow
    /\ resp' = Reply("snapshotNow", o, d, "NotFound", << >>)
    /\ UNCHANGED <<searchBar, writing_sessions, route, editor, localStorage, location, calls, sessions, detached, folders, tags, document_tags, started, documents, files, documents_fts, document_versions, req, nextDoc,
                   now, inconsistencies, lastSet, issued, lastAuto>>

(* 204: nothing changed since the latest version *)
SN_NoChange(o, d) ==
    /\ get_document(documents, o, d) # NoRow
    /\ same_as_latest(document_versions, d, read_markdown(files, documents[d].file_path))
    /\ resp' = Reply("snapshotNow", o, d, "no changes", << >>)
    /\ UNCHANGED <<searchBar, writing_sessions, route, editor, localStorage, location, calls, sessions, detached, folders, tags, document_tags, started, documents, files, documents_fts, document_versions, req, nextDoc,
                   now, inconsistencies, lastSet, issued, lastAuto>>

(* 201: forced snapshot of the current content, the interval is not consulted *)
SN_Create(o, d) ==
    /\ started < MaxRequests
    /\ started' = started + 1
    /\ get_document(documents, o, d) # NoRow
    /\ ~same_as_latest(document_versions, d, read_markdown(files, documents[d].file_path))
    /\ document_versions' = create_version(document_versions, d,
                                read_markdown(files, documents[d].file_path), now)
    /\ issued' = [issued EXCEPT ![d] = next_version_number(document_versions, d)]
    /\ resp' = Reply("snapshotNow", o, d, "created", << >>)
    /\ UNCHANGED <<searchBar, writing_sessions, route, editor, localStorage, location, calls, sessions, detached, folders, tags, document_tags, documents, files, documents_fts, req, nextDoc, now,
                   inconsistencies, lastSet, lastAuto>>

(* UNIQUE(document_id, version_number) *)
number_taken(vs, d, n) == n \in VersionNumbers(vs, d)

(* INSERT INTO document_versions with a number computed beforehand *)
insert_version(vs, d, n, content, t) ==
    prune_versions(vs \cup {[document_id |-> d,
                             version_number |-> n,
                             content |-> content,
                             word_count |-> count_words(content),
                             char_count |-> count_chars(content),
                             created_at |-> t]}, d)

(* Fault variant: the number is computed while another call works on the
   document *)
SN_BeginUnserialized(p, o, d) ==
    /\ req[p].pc = "idle"
    /\ started < MaxRequests
    /\ started' = started + 1
    /\ get_document(documents, o, d) # NoRow
    /\ ~same_as_latest(document_versions, d, read_markdown(files, documents[d].file_path))
    /\ req' = [Busy(p, "snapshotNow", o, d, << >>, "sn_insert",
                    read_markdown(files, documents[d].file_path))
                  EXCEPT ![p].number = next_version_number(document_versions, d)]
    /\ resp' = NoResp
    /\ UNCHANGED <<searchBar, writing_sessions, route, editor, localStorage, location, calls, sessions, detached, folders, tags, document_tags, documents, files, documents_fts, nextDoc, now,
                   inconsistencies, lastSet, lastAuto, document_versions, issued>>

(* Forced snapshot as a request of a connection: the content is read and the
   number 1 + max is computed, the row is inserted in the next step *)
SN_Begin(p, o, d) ==
    /\ req[p].pc = "idle"
    /\ started < MaxRequests
    /\ started' = started + 1
    /\ doc_free(d)
    /\ get_document(documents, o, d) # NoRow
    /\ ~same_as_latest(document_versions, d, read_markdown(files, documents[d].file_path))
    /\ req' = [Busy(p, "snapshotNow", o, d, << >>, "sn_insert",
                    read_markdown(files, documents[d].file_path))
                  EXCEPT ![p].number = next_version_number(document_versions, d)]
    /\ resp' = NoResp
    /\ UNCHANGED <<searchBar, writing_sessions, route, editor, localStorage, location, calls, sessions, detached, folders, tags, document_tags, documents, files, documents_fts, nextDoc, now,
                   inconsistencies, lastSet, lastAuto, document_versions, issued>>

SN_Insert(p) ==
    /\ req[p].pc = "sn_insert"
    /\ LET d == req[p].doc
           n == req[p].number
       IN  IF number_taken(document_versions, d, n)
           THEN /\ resp' = Reply("snapshotNow", req[p].owner, d, "DatabaseError", << >>)
                /\ UNCHANGED <<document_versions, issued>>
           ELSE /\ document_versions' = insert_version(document_versions, d, n,
                                                       req[p].prev, now)
                /\ issued' = [issued EXCEPT ![d] = n]
                /\ resp' = Reply("snapshotNow", req[p].owner, d, "created", << >>)
    /\ req' = Done(p)
    /\ UNCHANGED <<searchBar, writing_sessions, route, editor, localStorage, location, calls, sessions, detached, folders, tags, document_tags, documents, files, documents_fts, nextDoc, now,
                   inconsistencies, lastSet, lastAuto, started>>

Tick ==
    /\ now < MaxTime
    /\ now' = now + 1
    /\ resp' = NoResp
    /\ UNCHANGED <<searchBar, writing_sessions, route, editor, localStorage, location, calls, sessions, detached, folders, tags, document_tags, started, documents, files, documents_fts, document_versions, req, nextDoc,
                   inconsistencies, lastSet, issued, lastAuto>>

----------------------------------------------------------------------------
(* /folders and /tags: single statements, scoped by user_id *)

OwnFolders(o) == {f \in 1 .. Len(folders) : folders[f] # NoRow /\ folders[f].user_id = o}

OwnTags(o) == {t \in 1 .. Len(tags) : tags[t] # NoRow /\ tags[t].user_id = o}

(* POST /folders { name, parent_id? } *)
create_folder(o, n, par) ==
    /\ started < MaxRequests
    /\ started' = started + 1
    /\ Len(folders) < MaxFolders
    /\ folders' = IF parent_ok(o, par)
                  THEN Append(folders, [user_id |-> o, name |-> n, parent_id |-> par])
                  ELSE folders
    /\ resp' = IF parent_ok(o, par)
               THEN Reply("createFolder", o, Len(folders) + 1, "ok", {})
               ELSE Reply("createFolder", o, 0, "NotFound", {})
    /\ UNCHANGED <<searchBar, writing_sessions, route, editor, localStorage, location, calls, sessions, detached, tags, document_tags, documents, files, documents_fts, document_versions,
                   req, nextDoc, now, inconsistencies, lastSet, issued, lastAuto>>

list_folders(o) ==
    /\ resp' = Reply("listFolders", o, 0, "ok", OwnFolders(o))
    /\ UNCHANGED <<searchBar, writing_sessions, route, editor, localStorage, location, calls, sessions, detached, folders, tags, document_tags, started, documents, files, documents_fts,
                   document_versions, req, nextDoc, now, inconsistencies, lastSet,
                   issued, lastAuto>>

(* The folder and the folders above it, following parent_id at most n times *)
RECURSIVE Walk(_, _, _)
Walk(fs, f, n) ==
    IF n = 0 THEN {}
    ELSE IF f \notin 1 .. Len(fs) THEN {}
    ELSE IF fs[f] = NoRow THEN {}
    ELSE {f} \cup Walk(fs, fs[f].parent_id, n - 1)

(* Cycle check: the folder is the new parent or one of the folders above it *)
would_cycle(fs, f, par) == f \in Walk(fs, par, Len(fs))

(* PATCH /folders/:id { parent_id }: 404 *)
UF_NotFound(p, o, f, par) ==
    /\ req[p].pc = "idle"
    /\ get_folder(folders, o, f) = NoRow \/ ~parent_ok(o, par)
    /\ resp' = Reply("updateFolder", o, f, "NotFound", {})
    /\ UNCHANGED <<searchBar, writing_sessions, route, editor, localStorage, location, calls, sessions, detached, folders, tags, document_tags, started, documents, files, documents_fts,
                   document_versions, req, nextDoc, now, inconsistencies, lastSet,
                   issued, lastAuto>>

(* the walk finds the folder above its new parent *)
UF_Conflict(p, o, f, par) ==
    /\ req[p].pc = "idle"
    /\ get_folder(folders, o, f) # NoRow
    /\ parent_ok(o, par)
    /\ would_cycle(folders, f, par)
    /\ resp' = Reply("updateFolder", o, f, "Conflict", {})
    /\ UNCHANGED <<searchBar, writing_sessions, route, editor, localStorage, location, calls, sessions, detached, folders, tags, document_tags, started, documents, files, documents_fts,
                   document_versions, req, nextDoc, now, inconsistencies, lastSet,
                   issued, lastAuto>>

(* the walk passes; the UPDATE is a statement of its own *)
UF_Check(p, o, f, par) ==
    /\ req[p].pc = "idle"
    /\ started < MaxRequests
    /\ started' = started + 1
    /\ get_folder(folders, o, f) # NoRow
    /\ parent_ok(o, par)
    /\ ~would_cycle(folders, f, par)
    /\ req' = [Busy(p, "updateFolder", o, 0, f, "uf_write", << >>) EXCEPT ![p].folder = par]
    /\ resp' = NoResp
    /\ UNCHANGED <<searchBar, writing_sessions, route, editor, localStorage, location, calls, sessions, detached, folders, tags, document_tags, documents, files, documents_fts,
                   document_versions, nextDoc, now, inconsistencies, lastSet, issued,
                   lastAuto>>

(* UPDATE folders SET parent_id = ? WHERE id = ? AND user_id = ? *)
UF_Write(p) ==
    /\ req[p].pc = "uf_write"
    /\ LET f == req[p].arg
           par == req[p].folder
           found == get_folder(folders, req[p].owner, f) # NoRow
           fk == folder_ref_ok(folders, par)
       IN  /\ folders' = IF found /\ fk
                         THEN [folders EXCEPT ![f].parent_id = par]
                         ELSE folders
           /\ resp' = Reply("updateFolder", req[p].owner, f,
                            IF ~found THEN "NotFound"
                            ELSE IF ~fk THEN "DatabaseError" ELSE "ok", {})
    /\ req' = Done(p)
    /\ UNCHANGED <<searchBar, writing_sessions, route, editor, localStorage, location, calls, sessions, detached, tags, document_tags, started, documents, files, documents_fts,
                   document_versions, nextDoc, now, inconsistencies, lastSet, issued,
                   lastAuto>>

(* ON DELETE SET NULL of folders.parent_id and of documents.folder_id *)
set_null_parent(fs, f) ==
    [g \in 1 .. Len(fs) |->
        IF g = f THEN NoRow
        ELSE IF fs[g] = NoRow THEN NoRow
        ELSE IF fs[g].parent_id = f THEN [fs[g] EXCEPT !.parent_id = 0]
        ELSE fs[g]]

(* Fault variant: the documents of the folder are deleted with it *)
delete_in_folder(docs, f) ==
    [d \in DocIds |->
        IF docs[d] = NoRow THEN NoRow
        ELSE IF docs[d].folder_id = f THEN NoRow
        ELSE docs[d]]

set_null_folder(docs, f) ==
    [d \in DocIds |->
        IF docs[d] = NoRow THEN NoRow
        ELSE IF docs[d].folder_id = f THEN [docs[d] EXCEPT !.folder_id = 0]
        ELSE docs[d]]

(* DELETE /folders/:id *)
delete_folder(o, f) ==
    /\ started < MaxRequests
    /\ started' = started + 1
    /\ f \in 1 .. Len(folders)
    /\ folders' = IF f \in OwnFolders(o) THEN set_null_parent(folders, f) ELSE folders
    /\ documents' = IF f \in OwnFolders(o) THEN set_null_folder(documents, f) ELSE documents
    /\ resp' = Reply("deleteFolder", o, f, IF f \in OwnFolders(o) THEN "ok" ELSE "NotFound", {})
    /\ detached' = IF f \in OwnFolders(o)
                   THEN [folder |-> f,
                         documents |-> {d \in DocIds : documents[d] # NoRow
                                                        /\ documents[d].folder_id = f},
                         folders |-> {g \in 1 .. Len(folders) :
                                         folders[g] # NoRow /\ folders[g].parent_id = f}]
                   ELSE detached
    /\ UNCHANGED <<searchBar, writing_sessions, route, editor, localStorage, location, calls, sessions, tags, document_tags, files, documents_fts, document_versions, req,
                   nextDoc, now, inconsistencies, lastSet, issued, lastAuto>>

(* tags.name is UNIQUE (001) and (user_id, name) is UNIQUE (003) *)
tag_name_taken(o, n) ==
    \E t \in 1 .. Len(tags) : tags[t] # NoRow /\ tags[t].name = n

create_tag(o, n) ==
    /\ started < MaxRequests
    /\ started' = started + 1
    /\ Len(tags) < MaxTags
    /\ tags' = IF tag_name_taken(o, n) THEN tags
               ELSE Append(tags, [user_id |-> o, name |-> n])
    /\ resp' = IF tag_name_taken(o, n)
               THEN Reply("createTag", o, 0, "Conflict", n)
               ELSE Reply("createTag", o, Len(tags) + 1, "ok", n)
    /\ UNCHANGED <<searchBar, writing_sessions, route, editor, localStorage, location, calls, sessions, detached, folders, document_tags, documents, files, documents_fts,
                   document_versions, req, nextDoc, now, inconsistencies, lastSet,
                   issued, lastAuto>>

(* PATCH /tags/:id { name }: the same two UNIQUE constraints *)
update_tag(o, t, n) ==
    /\ started < MaxRequests
    /\ started' = started + 1
    /\ t \in 1 .. Len(tags)
    /\ LET taken == \E u \in (1 .. Len(tags)) \ {t} : tags[u] # NoRow /\ tags[u].name = n
       IN  /\ tags' = IF t \in OwnTags(o) /\ ~taken
                      THEN [tags EXCEPT ![t].name = n]
                      ELSE tags
           /\ resp' = Reply("updateTag", o, t,
                            IF t \notin OwnTags(o) THEN "NotFound"
                            ELSE IF taken THEN "Conflict" ELSE "ok", n)
    /\ UNCHANGED <<searchBar, writing_sessions, route, editor, localStorage, location, calls, sessions, detached, folders, document_tags, documents, files, documents_fts,
                   document_versions, req, nextDoc, now, inconsistencies, lastSet,
                   issued, lastAuto>>

list_tags(o) ==
    /\ resp' = Reply("listTags", o, 0, "ok", OwnTags(o))
    /\ UNCHANGED <<searchBar, writing_sessions, route, editor, localStorage, location, calls, sessions, detached, folders, tags, document_tags, started, documents, files, documents_fts,
                   document_versions, req, nextDoc, now, inconsistencies, lastSet,
                   issued, lastAuto>>

(* DELETE /tags/:id *)
delete_tag(o, t) ==
    /\ started < MaxRequests
    /\ started' = started + 1
    /\ t \in 1 .. Len(tags)
    /\ tags' = IF t \in OwnTags(o) THEN [tags EXCEPT ![t] = NoRow] ELSE tags
    /\ document_tags' = IF t \in OwnTags(o) THEN cascade_tag_links(document_tags, t)
                        ELSE document_tags
    /\ resp' = Reply("deleteTag", o, t, IF t \in OwnTags(o) THEN "ok" ELSE "NotFound", {})
    /\ UNCHANGED <<searchBar, writing_sessions, route, editor, localStorage, location, calls, sessions, detached, folders, documents, files, documents_fts, document_versions, req,
                   nextDoc, now, inconsistencies, lastSet, issued, lastAuto>>

(* POST /documents/:id/tags { tag_id }: 201 *)
attach_tag(o, d, t) ==
    /\ started < MaxRequests
    /\ started' = started + 1
    /\ document_tags' = IF get_document(documents, o, d) # NoRow /\ t \in OwnTags(o)
                        THEN document_tags \cup {[document_id |-> d, tag_id |-> t]}
                        ELSE document_tags
    /\ resp' = Reply("attachTag", o, d,
                     IF get_document(documents, o, d) # NoRow /\ t \in OwnTags(o)
                     THEN "ok" ELSE "NotFound", {})
    /\ UNCHANGED <<searchBar, writing_sessions, route, editor, localStorage, location, calls, sessions, detached, folders, tags, documents, files, documents_fts, document_versions, req,
                   nextDoc, now, inconsistencies, lastSet, issued, lastAuto>>

(* DELETE /documents/:id/tags/:tag_id: 204 *)
detach_tag(o, d, t) ==
    /\ started < MaxRequests
    /\ started' = started + 1
    /\ document_tags' = IF get_document(documents, o, d) # NoRow
                        THEN document_tags \ {[document_id |-> d, tag_id |-> t]}
                        ELSE document_tags
    /\ resp' = Reply("detachTag", o, d,
                     IF get_document(documents, o, d) # NoRow THEN "ok" ELSE "NotFound", {})
    /\ UNCHANGED <<searchBar, writing_sessions, route, editor, localStorage, location, calls, sessions, detached, folders, tags, documents, files, documents_fts, document_versions, req,
                   nextDoc, now, inconsistencies, lastSet, issued, lastAuto>>

(* GET /documents/:id/tags *)
list_document_tags(o, d) ==
    /\ resp' = IF get_document(documents, o, d) # NoRow
               THEN Reply("listDocumentTags", o, d, "ok",
                          {l.tag_id : l \in {k \in document_tags : k.document_id = d}})
               ELSE Reply("listDocumentTags", o, d, "NotFound", {})
    /\ UNCHANGED <<searchBar, writing_sessions, route, editor, localStorage, location, calls, sessions, detached, folders, tags, document_tags, started, documents, files, documents_fts,
                   document_versions, req, nextDoc, now, inconsistencies, lastSet,
                   issued, lastAuto>>

----------------------------------------------------------------------------
(* The concurrent core: two connections of one user; content, search, deletion *)

CoreTexts == {TextHi, TextHiHo}

CoreTitles == {<<"H", "i">>}

CoreQueries == {[term |-> <<"h">>, prefix |-> TRUE]}

Next ==
    \/ \E p \in Procs, t \in CoreTitles :
          CD_Write(p, "A", t, 0) \/ CD_WriteFail(p, "A", t)
    \/ \E p \in Procs : CD_Insert(p) \/ CD_InsertFail(p)
    \/ \E p \in Procs, d \in DocIds, x \in CoreTexts :
          SC_NotFound(p, "A", d, x) \/ SC_Read(p, "A", d, x)
    \/ \E p \in Procs :
          \/ SC_Snapshot(p)
          \/ SC_Write(p)
          \/ SC_WriteFail(p)
          \/ SC_Meta(p)
          \/ SC_MetaFail(p)
          \/ SC_Index(p)
          \/ SC_IndexFail(p)
    \/ \E d \in DocIds : get_document_content("A", d)
    \/ \E p \in Procs, d \in DocIds :
          DD_NotFound(p, "A", d) \/ DD_Unindex(p, "A", d)
    \/ \E p \in Procs : DD_Row(p) \/ DD_RowFail(p) \/ DD_File(p) \/ DD_FileFail(p)
    \/ \E p \in Procs, d \in DocIds, t \in CoreTitles :
          UM_NotFound(p, "A", d) \/ UM_Row(p, "A", d, t)
    \/ \E p \in Procs : UM_Index(p) \/ UM_IndexFail(p)
    \/ \E q \in CoreQueries : search("A", q)

Spec == Init /\ [][Next]_vars

----------------------------------------------------------------------------
(* Version history of one document: one connection, the clock advances *)

(* The document has just been created by user A: row inserted, empty file *)
InitV ==
    /\ documents = [d \in DocIds |->
                       IF d = 1
                       THEN [user_id |-> "A", folder_id |-> 0,
                             title |-> <<"H", "i">>, file_path |-> 1,
                             word_count |-> 0, char_count |-> 0, excerpt |-> TextEmpty,
                             is_pinned |-> FALSE, is_archived |-> FALSE]
                       ELSE NoRow]
    /\ files = [d \in DocIds |->
                   IF d = 1 THEN [exists |-> TRUE, content |-> TextEmpty] ELSE Absent]
    /\ documents_fts = [d \in DocIds |-> NoEntry]
    /\ document_versions = {}
    /\ req = [p \in Procs |-> Idle]
    /\ resp = NoResp
    /\ nextDoc = 2
    /\ started = 0
    /\ now = 0
    /\ folders = << >>
    /\ tags = << >>
    /\ document_tags = {}
    /\ inconsistencies = {}
    /\ lastSet = [d \in DocIds |-> NoWrite]
    /\ issued = [d \in DocIds |-> 0]
    /\ lastAuto = [d \in DocIds |-> -1]
    /\ detached = NoDetach
    /\ LoggedIn
    /\ EditorClosed
    /\ route = PageLoad
    /\ writing_sessions = {}
    /\ SearchBarMounted

NextV ==
    \/ \E x \in CoreTexts : SC_Read(1, "A", 1, x)
    \/ SC_Snapshot(1)
    \/ SC_Write(1)
    \/ SC_WriteFail(1)
    \/ SC_Meta(1)
    \/ SC_MetaFail(1)
    \/ SC_Index(1)
    \/ SC_IndexFail(1)
    \/ list_versions("A", 1)
    \/ SN_NoChange("A", 1)
    \/ SN_Create("A", 1)
    \/ Tick

SpecV == InitV /\ [][NextV]_vars

----------------------------------------------------------------------------
(* One document, two connections: edits and forced snapshots interleaved *)

NextW ==
    \/ \E p \in Procs :
          \/ \E x \in CoreTexts : SC_Read(p, "A", 1, x)
          \/ SC_Snapshot(p)
          \/ SC_Write(p)
          \/ SC_Meta(p)
          \/ SC_Index(p)
          \/ SN_Begin(p, "A", 1)
          \/ SN_Insert(p)
    \/ Tick

SpecW == InitV /\ [][NextW]_vars

----------------------------------------------------------------------------
(* Two users, one connection: every operation of the interface *)

IsoTexts == {TextHiHo}

IsoQueries == {[term |-> <<"h">>, prefix |-> TRUE], [term |-> << >>, prefix |-> FALSE]}

(* A step that only answers (a read, a NotFound, a rejected request) leaves
   every store as it is, and what it answers depends on the stores alone.  It
   is therefore taken from the states reached by a step that changed
   something: answering twice in a row reaches no further answer. *)
Answered ==
    \/ resp.op \in {"getContent", "search", "listVersions", "listFolders", "listTags",
                   "listDocumentTags"}
    \/ resp.status \in {"NotFound", "ValidationError", "Conflict", "no changes"}

NextIso ==
    \/ \E o \in Owners, t \in CoreTitles, f \in 0 .. MaxFolders : CD_Write(1, o, t, f)
    \/ \E o \in Owners, t \in CoreTitles : CD_WriteFail(1, o, t)
    \/ CD_Insert(1)
    \/ CD_InsertFail(1)
    \/ \E o \in Owners, d \in DocIds, x \in IsoTexts : SC_Read(1, o, d, x)
    \/ SC_Snapshot(1)
    \/ SC_Write(1)
    \/ SC_WriteFail(1)
    \/ SC_Meta(1)
    \/ SC_MetaFail(1)
    \/ SC_Index(1)
    \/ SC_IndexFail(1)
    \/ \E o \in Owners, d \in DocIds : DD_Unindex(1, o, d) \/ SN_Create(o, d)
    \/ DD_Row(1)
    \/ DD_RowFail(1)
    \/ DD_File(1)
    \/ DD_FileFail(1)
    \/ \E o \in Owners, d \in DocIds, t \in CoreTitles : UM_Row(1, o, d, t)
    \/ UM_Index(1)
    \/ UM_IndexFail(1)
    \/ \E o \in Owners, n \in FolderNames, par \in 0 .. MaxFolders : create_folder(o, n, par)
    \/ \E o \in Owners, f \in 1 .. MaxFolders, par \in 0 .. MaxFolders : UF_Check(1, o, f, par)
    \/ UF_Write(1)
    \/ \E o \in Owners, f \in 1 .. MaxFolders : delete_folder(o, f)
    \/ \E o \in Owners, d \in DocIds, f \in 0 .. MaxFolders : UM_Move(1, o, d, f)
    \/ \E o \in Owners, n \in TagNames : create_tag(o, n)
    \/ \E o \in Owners, t \in 1 .. MaxTags : delete_tag(o, t)
    \/ \E o \in Owners, d \in DocIds, t \in 1 .. MaxTags :
          attach_tag(o, d, t) \/ detach_tag(o, d, t)
    \/ /\ ~Answered
       /\ \/ \E o \in Owners, d \in DocIds :
                \/ get_document_content(o, d)
                \/ list_versions(o, d)
                \/ SC_NotFound(1, o, d, TextHiHo)
                \/ DD_NotFound(1, o, d)
                \/ UM_NotFound(1, o, d)
                \/ SN_NotFound(o, d)
                \/ SN_NoChange(o, d)
          \/ \E o \in Owners, q \in IsoQueries : search(o, q)
          \/ \E o \in Owners : list_folders(o) \/ list_tags(o)
          \/ \E o \in Owners, d \in DocIds : list_document_tags(o, d)
          \/ \E o \in Owners, f \in 1 .. MaxFolders, par \in 0 .. MaxFolders :
                UF_NotFound(1, o, f, par) \/ UF_Conflict(1, o, f, par)
          \/ \E o \in Owners, d \in DocIds, f \in 0 .. MaxFolders :
                UM_MoveNotFound(1, o, d, f)

SpecIso == Init /\ [][NextIso]_vars

----------------------------------------------------------------------------
(* The folder tree and the documents in it: two users; folder updates on two
   connections *)

(* User A has one folder at the root *)
InitF ==
    /\ documents = [d \in DocIds |-> NoRow]
    /\ files = [d \in DocIds |-> Absent]
    /\ documents_fts = [d \in DocIds |-> NoEntry]
    /\ document_versions = {}
    /\ req = [p \in Procs |-> Idle]
    /\ resp = NoResp
    /\ nextDoc = 1
    /\ started = 0
    /\ now = 0
    /\ folders = <<[user_id |-> "A", name |-> "diary", parent_id |-> 0]>>
    /\ tags = << >>
    /\ document_tags = {}
    /\ inconsistencies = {}
    /\ lastSet = [d \in DocIds |-> NoWrite]
    /\ issued = [d \in DocIds |-> 0]
    /\ lastAuto = [d \in DocIds |-> -1]
    /\ detached = NoDetach
    /\ LoggedIn
    /\ EditorClosed
    /\ route = PageLoad
    /\ writing_sessions = {}
    /\ SearchBarMounted

NextF ==
    \/ \E o \in Owners, n \in FolderNames, par \in 0 .. MaxFolders : create_folder(o, n, par)
    \/ \E p \in Procs, o \in Owners, f \in 1 .. MaxFolders, par \in 0 .. MaxFolders :
          UF_Check(p, o, f, par)
    \/ \E p \in Procs : UF_Write(p)
    \/ \E o \in Owners, f \in 1 .. MaxFolders : delete_folder(o, f)
    \/ \E o \in Owners, t \in CoreTitles, f \in 0 .. MaxFolders : CD_Write(1, o, t, f)
    \/ CD_Insert(1)
    \/ CD_InsertFail(1)
    \/ \E o \in Owners, d \in DocIds, f \in 0 .. MaxFolders : UM_Move(1, o, d, f)
    \/ /\ ~Answered
       /\ \/ \E o \in Owners : list_folders(o)
          \/ \E p \in Procs, o \in Owners, f \in 1 .. MaxFolders, par \in 0 .. MaxFolders :
                UF_NotFound(p, o, f, par) \/ UF_Conflict(p, o, f, par)
          \/ \E o \in Owners, d \in DocIds, f \in 0 .. MaxFolders :
                UM_MoveNotFound(1, o, d, f)

SpecF == InitF /\ [][NextF]_vars

----------------------------------------------------------------------------
(* Tags and tag links: two users, one connection *)

TagNamesT == {"rust", "go"}

NextT ==
    \/ \E o \in Owners, n \in TagNamesT : create_tag(o, n)
    \/ \E o \in Owners, t \in 1 .. MaxTags, n \in TagNamesT : update_tag(o, t, n)
    \/ \E o \in Owners, t \in 1 .. MaxTags : delete_tag(o, t)
    \/ \E o \in Owners, t \in CoreTitles : CD_Write(1, o, t, 0)
    \/ CD_Insert(1)
    \/ \E o \in Owners, d \in DocIds, t \in 1 .. MaxTags :
          attach_tag(o, d, t) \/ detach_tag(o, d, t)
    \/ \E o \in Owners, d \in DocIds : DD_Unindex(1, o, d)
    \/ DD_Row(1)
    \/ DD_File(1)
    \/ /\ ~Answered
       /\ \/ \E o \in Owners : list_tags(o)
          \/ \E o \in Owners, d \in DocIds : list_document_tags(o, d)

SpecT == Init /\ [][NextT]_vars

----------------------------------------------------------------------------
(* Writing sessions *)

(* POST /documents/:id/sessions: a session of a document of the caller starts *)
start_session(o, d) ==
    /\ started < MaxRequests
    /\ started' = started + 1
    /\ writing_sessions' =
          IF get_document(documents, o, d) # NoRow
          THEN writing_sessions \cup {[id |-> started + 1, document_id |-> d, ended |-> FALSE]}
          ELSE writing_sessions
    /\ resp' = Reply("startSession", o, d,
                     IF get_document(documents, o, d) # NoRow THEN "ok" ELSE "NotFound", {})
    /\ UNCHANGED <<searchBar, route, editor, localStorage, location, calls, sessions, detached, folders, tags, document_tags, documents, files, documents_fts, document_versions, req,
                   nextDoc, now, inconsistencies, lastSet, issued, lastAuto>>

(* PATCH /sessions/:id: the session ends *)
end_session(o, w) ==
    /\ started < MaxRequests
    /\ started' = started + 1
    /\ w \in writing_sessions
    /\ ~w.ended
    /\ get_document(documents, o, w.document_id) # NoRow
    /\ writing_sessions' = (writing_sessions \ {w}) \cup {[w EXCEPT !.ended = TRUE]}
    /\ resp' = Reply("endSession", o, w.document_id, "ok", {})
    /\ UNCHANGED <<searchBar, route, editor, localStorage, location, calls, sessions, detached, folders, tags, document_tags, documents, files, documents_fts, document_versions, req,
                   nextDoc, now, inconsistencies, lastSet, issued, lastAuto>>

----------------------------------------------------------------------------
(* One document with a version, a tag and a writing session *)

InitX ==
    /\ documents = [d \in DocIds |->
                       IF d = 1
                       THEN [user_id |-> "A", folder_id |-> 0,
                             title |-> <<"H", "i">>, file_path |-> 1,
                             word_count |-> count_words(TextHi),
                             char_count |-> count_chars(TextHi),
                             excerpt |-> make_excerpt(TextHi),
                             is_pinned |-> FALSE, is_archived |-> FALSE]
                       ELSE NoRow]
    /\ files = [d \in DocIds |->
                   IF d = 1 THEN [exists |-> TRUE, content |-> TextHi] ELSE Absent]
    /\ documents_fts = fts_index([d \in DocIds |-> NoEntry], 1, <<"H", "i">>, TextHi)
    /\ document_versions = create_version({}, 1, TextEmpty, 0)
    /\ req = [p \in Procs |-> Idle]
    /\ resp = NoResp
    /\ nextDoc = 2
    /\ started = 0
    /\ now = 0
    /\ folders = << >>
    /\ tags = <<[user_id |-> "A", name |-> "rust"]>>
    /\ document_tags = {[document_id |-> 1, tag_id |-> 1]}
    /\ inconsistencies = {}
    /\ lastSet = [d \in DocIds |-> IF d = 1 THEN [text |-> TextHi, returned |-> TRUE]
                                            ELSE NoWrite]
    /\ issued = [d \in DocIds |-> IF d = 1 THEN 1 ELSE 0]
    /\ lastAuto = [d \in DocIds |-> IF d = 1 THEN 0 ELSE -1]
    /\ detached = NoDetach
    /\ LoggedIn
    /\ EditorClosed
    /\ route = PageLoad
    /\ writing_sessions = {[id |-> 0, document_id |-> 1, ended |-> FALSE]}
    /\ SearchBarMounted

NextX ==
    \/ \E o \in Owners, d \in DocIds : DD_Unindex(1, o, d)
    \/ DD_Row(1)
    \/ DD_File(1)
    \/ \E o \in Owners, t \in 1 .. MaxTags : delete_tag(o, t)
    \/ \E o \in Owners, n \in TagNamesT : create_tag(o, n)
    \/ \E o \in Owners, d \in DocIds, t \in 1 .. MaxTags :
          attach_tag(o, d, t) \/ detach_tag(o, d, t)
    \/ \E o \in Owners, d \in DocIds : start_session(o, d)
    \/ \E o \in Owners, w \in writing_sessions : end_session(o, w)
    \/ \E o \in Owners, t \in CoreTitles : CD_Write(1, o, t, 0)
    \/ CD_Insert(1)
    \/ SC_Read(1, "A", 1, TextHiHo)
    \/ SC_Snapshot(1)
    \/ SC_Write(1)
    \/ SC_Meta(1)
    \/ SC_Index(1)
    \/ Tick

SpecX == InitX /\ [][NextX]_vars

----------------------------------------------------------------------------
(* Metadata updates of a document that has content, a version and a search
   entry *)

NextM ==
    \/ \E n \in FolderNames : create_folder("A", n, 0)
    \/ \E d \in DocIds, f \in 0 .. MaxFolders : UM_Move(1, "A", d, f)
    \/ \E d \in DocIds, pin \in BOOLEAN, arch \in BOOLEAN : UM_Flags(1, "A", d, pin, arch)
    \/ \E t \in Titles : UM_Row(1, "A", 1, t)
    \/ UM_Index(1)
    \/ SC_Read(1, "A", 1, TextHiHo)
    \/ SC_Snapshot(1)
    \/ SC_Write(1)
    \/ SC_Meta(1)
    \/ SC_Index(1)
    \/ Tick

SpecM == InitX /\ [][NextM]_vars


----------------------------------------------------------------------------
(* Documents created with and without a title, in and out of folders *)

GivenTitles == {untitled_k(2)}

NextU ==
    \/ \E p \in Procs, o \in Owners, t \in GivenTitles, f \in 0 .. MaxFolders : CD_Write(p, o, t, f)
    \/ \E p \in Procs, o \in Owners, f \in 0 .. MaxFolders : CD_WriteUntitled(p, o, f)
    \/ \E p \in Procs : CD_Insert(p)
    \/ \E p \in Procs : CD_InsertFail(p)
    \/ \E o \in Owners, d \in DocIds, f \in 0 .. MaxFolders : UM_Move(1, o, d, f)

SpecU == InitF /\ [][NextU]_vars

----------------------------------------------------------------------------
(* One document edited and re-titled from two connections, and searched *)

TitleQueries == {[term |-> <<"h">>, prefix |-> TRUE],
                 [term |-> <<"y", "o">>, prefix |-> FALSE],
                 [term |-> <<"h", "i">>, prefix |-> FALSE]}

NextR ==
    \/ \E p \in Procs, x \in CoreTexts : SC_Read(p, "A", 1, x)
    \/ \E p \in Procs :
          \/ SC_Snapshot(p)
          \/ SC_Write(p)
          \/ SC_Meta(p)
          \/ SC_Index(p)
          \/ SC_IndexFail(p)
    \/ \E p \in Procs, t \in Titles : UM_Row(p, "A", 1, t)
    \/ \E p \in Procs : UM_Index(p) \/ UM_IndexFail(p)
    \/ ~Answered /\ \E q \in TitleQueries : search("A", q)

SpecR == InitV /\ [][NextR]_vars

----------------------------------------------------------------------------
(* frontend/src/api/client.ts: authFetch, and the server's answer to a token *)

ApiUrls == {"/api/v1/documents"}

PdfUrl == "/api/v1/documents/1/export/pdf"

(* middleware/auth.rs, AuthUser: the signature is valid and exp has not passed *)
verify_access_token(tok) == tok \in sessions.access

StatusFor(tok) == IF verify_access_token(tok) THEN 200 ELSE 401

(* lines 14-19: read the stored token, set the header if there is one, fetch *)
AF_Send(p, url) ==
    /\ location = "app"
    /\ calls[p].pc \in {"idle", "returned"}
    /\ calls' = [calls EXCEPT ![p] =
                    [pc |-> "fetch", url |-> url, wrapped |-> TRUE,
                     token |-> localStorage.access_token, refreshToken |-> 0,
                     auth |-> localStorage.access_token, status |-> 0]]
    /\ UNCHANGED <<localStorage, location, sessions>>
    /\ UNCHANGED <<route, editor, searchBar, storeVars>>

(* lines 19-22 and 44: the response arrives; on 401 with a token and a stored
   refresh token the refresh request goes out, otherwise the response is
   returned as it is *)
AF_Response(p) ==
    /\ calls[p].pc = "fetch"
    /\ calls[p].wrapped
    /\ calls' = [calls EXCEPT ![p] =
                    IF /\ StatusFor(calls[p].auth) = 401
                       /\ calls[p].token # 0
                       /\ localStorage.refresh_token # 0
                    THEN [calls[p] EXCEPT !.pc = "refresh",
                                          !.refreshToken = localStorage.refresh_token,
                                          !.status = 401]
                    ELSE [calls[p] EXCEPT !.pc = "returned",
                                          !.status = StatusFor(calls[p].auth)]]
    /\ UNCHANGED <<localStorage, location, sessions>>
    /\ UNCHANGED <<route, editor, searchBar, storeVars>>

(* line 33: headers.set('Authorization', `Bearer ${data.access_token}`) *)
resend_header(call, access_token) == access_token

(* lines 24-34: POST /auth/refresh answers with a new pair; both are stored and
   the request is fetched again with the new access token *)
AF_RefreshOk(p) ==
    /\ calls[p].pc = "refresh"
    /\ calls[p].refreshToken \in sessions.refresh
    /\ sessions.next <= MaxTokens
    /\ sessions' = [access |-> sessions.access \cup {sessions.next},
                    refresh |-> sessions.refresh \cup {sessions.next},
                    next |-> sessions.next + 1]
    /\ localStorage' = [access_token |-> sessions.next, refresh_token |-> sessions.next]
    /\ calls' = [calls EXCEPT ![p].pc = "refetch",
                              ![p].auth = resend_header(calls[p], sessions.next)]
    /\ UNCHANGED location
    /\ UNCHANGED <<route, editor, searchBar, storeVars>>

(* lines 24-34 when the server accepts a refresh token once: the token used is
   no longer accepted afterwards *)
AF_RefreshOnce(p) ==
    /\ calls[p].pc = "refresh"
    /\ calls[p].refreshToken \in sessions.refresh
    /\ sessions.next <= MaxTokens
    /\ sessions' = [access |-> sessions.access \cup {sessions.next},
                    refresh |-> (sessions.refresh \ {calls[p].refreshToken})
                                    \cup {sessions.next},
                    next |-> sessions.next + 1]
    /\ localStorage' = [access_token |-> sessions.next, refresh_token |-> sessions.next]
    /\ calls' = [calls EXCEPT ![p].pc = "refetch",
                              ![p].auth = resend_header(calls[p], sessions.next)]
    /\ UNCHANGED location
    /\ UNCHANGED <<route, editor, searchBar, storeVars>>

(* lines 39-41 and 44; assigning window.location.href loads the login page,
   which ends whatever else the old page was waiting for *)
GiveUp(p) ==
    /\ localStorage' = NoTokens
    /\ location' = "/login"
    /\ route' = PageLoad
    /\ calls' = [q \in Procs |->
                    IF q = p THEN [calls[p] EXCEPT !.pc = "returned", !.status = 401]
                    ELSE NoCall]

(* lines 29 and 39-41: the refresh answer is not ok *)
AF_RefreshFail(p) ==
    /\ calls[p].pc = "refresh"
    /\ calls[p].refreshToken \notin sessions.refresh
    /\ GiveUp(p)
    /\ UNCHANGED sessions
    /\ UNCHANGED <<editor, searchBar, storeVars>>

(* lines 36-41: the refresh request throws (network), the catch falls through *)
AF_RefreshThrow(p) ==
    /\ calls[p].pc = "refresh"
    /\ GiveUp(p)
    /\ UNCHANGED sessions
    /\ UNCHANGED <<editor, searchBar, storeVars>>

(* line 34: return fetch(url, ...): whatever the second answer is, it is the
   result *)
AF_Resent(p) ==
    /\ calls[p].pc = "refetch"
    /\ calls' = [calls EXCEPT ![p].pc = "returned",
                              ![p].status = StatusFor(calls[p].auth)]
    /\ UNCHANGED <<localStorage, location, sessions>>
    /\ UNCHANGED <<route, editor, searchBar, storeVars>>

(* Editor.tsx, handleExportPdf: a bare fetch of the export URL *)
PF_Send(p) ==
    /\ location = "app"
    /\ calls[p].pc \in {"idle", "returned"}
    /\ calls' = [calls EXCEPT ![p] =
                    [pc |-> "fetch", url |-> PdfUrl, wrapped |-> FALSE,
                     token |-> 0, refreshToken |-> 0, auth |-> 0, status |-> 0]]
    /\ UNCHANGED <<localStorage, location, sessions>>
    /\ UNCHANGED <<route, editor, searchBar, storeVars>>

PF_Response(p) ==
    /\ calls[p].pc = "fetch"
    /\ ~calls[p].wrapped
    /\ calls' = [calls EXCEPT ![p].pc = "returned",
                              ![p].status = StatusFor(calls[p].auth)]
    /\ UNCHANGED <<localStorage, location, sessions>>
    /\ UNCHANGED <<route, editor, searchBar, storeVars>>

(* create_access_token: exp = now + 15 minutes; the time passes *)
ExpireAccess(k) ==
    /\ k \in sessions.access
    /\ sessions' = [sessions EXCEPT !.access = @ \ {k}]
    /\ UNCHANGED <<localStorage, location, calls>>
    /\ UNCHANGED <<route, editor, searchBar, storeVars>>

(* refresh_token: 7 days *)
ExpireRefresh(k) ==
    /\ k \in sessions.refresh
    /\ sessions' = [sessions EXCEPT !.refresh = @ \ {k}]
    /\ UNCHANGED <<localStorage, location, calls>>
    /\ UNCHANGED <<route, editor, searchBar, storeVars>>

(* authStore.login: a new pair is issued and stored *)
login ==
    /\ localStorage.access_token = 0
    /\ sessions.next <= MaxTokens
    /\ sessions' = [access |-> sessions.access \cup {sessions.next},
                    refresh |-> sessions.refresh \cup {sessions.next},
                    next |-> sessions.next + 1]
    /\ localStorage' = [access_token |-> sessions.next, refresh_token |-> sessions.next]
    /\ location' = "app"
    /\ route' = [PageLoad EXCEPT !.isAuthenticated = TRUE,
                                 !.accessToken = sessions.next,
                                 !.refreshToken = sessions.next]
    /\ UNCHANGED calls
    /\ UNCHANGED <<editor, searchBar, storeVars>>

(* authStore.logout: api/auth.ts posts the refresh token to /auth/logout with
   no Authorization header, so routes/auth.rs logout (which takes AuthUser)
   answers 401 and deletes nothing; the store then forgets both tokens *)
logout ==
    /\ location = "app"
    /\ localStorage.access_token # 0
    /\ localStorage' = NoTokens
    /\ route' = [route EXCEPT !.isAuthenticated = FALSE,
                              !.accessToken = 0,
                              !.refreshToken = 0]
    /\ UNCHANGED <<location, calls, sessions>>
    /\ UNCHANGED <<editor, searchBar, storeVars>>

(* authStore.restoreSession *)
restoreSession(r) ==
    IF localStorage.access_token # 0 /\ localStorage.refresh_token # 0
    THEN [r EXCEPT !.isAuthenticated = TRUE,
                   !.accessToken = localStorage.access_token,
                   !.refreshToken = localStorage.refresh_token]
    ELSE r

(* Earlier variant of the component: no initialized state, the first render
   already decides *)
view_first_render(r) == IF ~r.isAuthenticated THEN "navigate" ELSE "children"

(* ProtectedRoute, the render: null until initialized, then Navigate or the
   children *)
view(r) ==
    IF ~r.initialized THEN "null"
    ELSE IF ~r.isAuthenticated THEN "navigate" ELSE "children"

(* ProtectedRoute renders; the first render schedules the effect; Navigate
   replaces the location *)
PR_Render ==
    /\ location = "app"
    /\ route.shown # view(route)
    /\ route' = [route EXCEPT !.shown = view(route),
                              !.effect = IF route.shown = "unmounted" THEN TRUE ELSE @]
    /\ location' = IF view(route) = "navigate" THEN "/login" ELSE location
    /\ UNCHANGED <<localStorage, calls, sessions, editor, searchBar, storeVars>>

(* useEffect: restoreSession(); setInitialized(true) *)
PR_Effect ==
    /\ location = "app"
    /\ route.effect
    /\ route' = [restoreSession(route) EXCEPT !.initialized = TRUE, !.effect = FALSE]
    /\ UNCHANGED <<localStorage, location, calls, sessions, editor, searchBar, storeVars>>

(* The user reloads the application page *)
Reload ==
    /\ location = "app"
    /\ route' = PageLoad
    /\ calls' = [p \in Procs |-> NoCall]
    /\ UNCHANGED <<localStorage, location, sessions, editor, searchBar, storeVars>>

----------------------------------------------------------------------------
(* SearchBar.tsx *)

SearchInputs == {<< >>, <<" ">>, <<"h">>, <<"h", "i">>}

RECURSIVE trimStart(_)
trimStart(q) ==
    IF q = << >> THEN q
    ELSE IF Head(q) = " " THEN trimStart(Tail(q)) ELSE q

RECURSIVE trimEnd(_)
trimEnd(q) ==
    IF q = << >> THEN q
    ELSE IF q[Len(q)] = " " THEN trimEnd(SubSeq(q, 1, Len(q) - 1)) ELSE q

(* String.prototype.trim *)
trim(q) == trimEnd(trimStart(q))

(* lines 83 and 41-63: the input changes, the effect clears the pending timer
   and either empties the results or starts a new timer *)
setQuery(q) ==
    /\ q # searchBar.query
    /\ searchBar' = IF trim(q) = << >>
                    THEN [searchBar EXCEPT !.query = q,
                                           !.debounce = NoDebounce,
                                           !.results = {},
                                           !.showResults = FALSE]
                    ELSE [searchBar EXCEPT !.query = q,
                                           !.debounce = [set |-> TRUE, query |-> q]]
    /\ UNCHANGED <<route, editor, localStorage, location, calls, sessions, storeVars>>

(* lines 48-51: 300 ms have passed, the search request leaves *)
debounceFire ==
    /\ searchBar.debounce.set
    /\ searchBar' = [searchBar EXCEPT !.debounce = NoDebounce,
                                      !.loading = TRUE,
                                      !.requests = @ \cup {searchBar.debounce.query}]
    /\ UNCHANGED <<route, editor, localStorage, location, calls, sessions, storeVars>>

(* lines 51-53 and 57: the answer of GET /search?q= arrives *)
searchDone(q) ==
    /\ q \in searchBar.requests
    /\ split_whitespace(q) # << >>
    /\ searchBar' = [searchBar EXCEPT !.requests = @ \ {q},
                                      !.results = SearchHits("A", [term |-> q, prefix |-> TRUE]),
                                      !.showResults = TRUE,
                                      !.loading = FALSE,
                                      !.of = q]
    /\ UNCHANGED <<route, editor, localStorage, location, calls, sessions, storeVars>>

(* lines 54-57: the request fails *)
searchFails(q) ==
    /\ q \in searchBar.requests
    /\ searchBar' = [searchBar EXCEPT !.requests = @ \ {q},
                                      !.results = {},
                                      !.loading = FALSE]
    /\ UNCHANGED <<route, editor, localStorage, location, calls, sessions, storeVars>>

NextQ ==
    \/ \E q \in SearchInputs : setQuery(q)
    \/ debounceFire
    \/ \E q \in SearchInputs : searchDone(q) \/ searchFails(q)

SpecQ == InitX /\ [][NextQ]_vars

NextC ==
    \/ \E p \in Procs, url \in ApiUrls : AF_Send(p, url)
    \/ \E p \in Procs : AF_Response(p)
    \/ \E p \in Procs : AF_RefreshOk(p)
    \/ \E p \in Procs : AF_RefreshFail(p)
    \/ \E p \in Procs : AF_RefreshThrow(p)
    \/ \E p \in Procs : AF_Resent(p)
    \/ \E p \in Procs : PF_Send(p)
    \/ \E p \in Procs : PF_Response(p)
    \/ \E k \in 1 .. MaxTokens : ExpireAccess(k)
    \/ \E k \in 1 .. MaxTokens : ExpireRefresh(k)
    \/ login
    \/ logout

SpecC == Init /\ [][NextC]_vars

(* Concurrent authFetch calls against a server that accepts a refresh token
   once; no refresh token expires and no request is lost *)
NextO ==
    \/ \E p \in Procs, url \in ApiUrls : AF_Send(p, url)
    \/ \E p \in Procs : AF_Response(p)
    \/ \E p \in Procs : AF_RefreshOnce(p)
    \/ \E p \in Procs : AF_RefreshFail(p)
    \/ \E p \in Procs : AF_Resent(p)
    \/ \E k \in 1 .. MaxTokens : ExpireAccess(k)

SpecO == Init /\ [][NextO]_vars

(* The pages that send requests, and the logout button, are the children of
   the ProtectedRoute *)
NextP ==
    \/ /\ route.shown = "children"
       /\ \/ \E p \in Procs, url \in ApiUrls : AF_Send(p, url)
          \/ \E p \in Procs : PF_Send(p)
          \/ logout
    \/ \E p \in Procs : AF_Response(p)
    \/ \E p \in Procs : AF_RefreshOk(p)
    \/ \E p \in Procs : AF_RefreshFail(p)
    \/ \E p \in Procs : AF_RefreshThrow(p)
    \/ \E p \in Procs : AF_Resent(p)
    \/ \E p \in Procs : PF_Response(p)
    \/ \E k \in 1 .. MaxTokens : ExpireAccess(k)
    \/ \E k \in 1 .. MaxTokens : ExpireRefresh(k)
    \/ login
    \/ PR_Render
    \/ PR_Effect
    \/ Reload

SpecP == Init /\ [][NextP]_vars

----------------------------------------------------------------------------
(* frontend/src/components/Editor/Editor.tsx: auto-save *)

browserVars == <<localStorage, location, calls, sessions, searchBar>>

(* lines 20-22 and 55-97: another document becomes the current one; the effect
   clears the timer, empties the editor and asks the server for the content *)
OpenDocument(d) ==
    /\ documents[d] # NoRow
    /\ editor.currentDocument # d
    /\ editor' = [editor EXCEPT !.currentDocument = d,
                                !.saveTimeout = NoTimer,
                                !.content = << >>,
                                !.loading = d,
                                !.loadError = FALSE,
                                !.shown = 0]
    /\ UNCHANGED <<route, browserVars, storeVars>>

(* lines 55-71: no current document any more *)
CloseDocument ==
    /\ editor.currentDocument # 0
    /\ editor' = [editor EXCEPT !.currentDocument = 0,
                                !.saveTimeout = NoTimer,
                                !.content = << >>,
                                !.loading = 0,
                                !.loadError = FALSE,
                                !.shown = 0]
    /\ UNCHANGED <<route, browserVars, storeVars>>

(* lines 84-88: the content arrives and is put into the editor, onUpdate
   skipped *)
LoadDone ==
    /\ editor.loading # 0
    /\ editor.loading = editor.currentDocument
    /\ file_exists(files, documents[editor.loading].file_path)
    /\ editor' = [editor EXCEPT !.content = read_markdown(files, documents[editor.loading].file_path),
                                !.loading = 0,
                                !.shown = editor.loading]
    /\ UNCHANGED <<route, browserVars, storeVars>>

(* lines 89-94: the fetch of the current document fails *)
LoadFails ==
    /\ editor.loading # 0
    /\ editor.loading = editor.currentDocument
    /\ editor' = [editor EXCEPT !.loading = 0, !.loadError = TRUE]
    /\ UNCHANGED <<route, browserVars, storeVars>>

(* lines 244-247: the Retry button asks for the content of the current
   document *)
Retry ==
    /\ editor.loadError
    /\ editor.currentDocument # 0
    /\ editor.retry = 0
    /\ editor' = [editor EXCEPT !.loadError = FALSE, !.retry = editor.currentDocument]
    /\ UNCHANGED <<route, browserVars, storeVars>>

(* lines 247-252: the content asked for by Retry arrives and is put into the
   editor, onUpdate skipped *)
RetryDone ==
    /\ editor.retry # 0
    /\ documents[editor.retry] # NoRow
    /\ file_exists(files, documents[editor.retry].file_path)
    /\ editor' = [editor EXCEPT !.content = read_markdown(files, documents[editor.retry].file_path),
                                !.retry = 0,
                                !.shown = editor.retry]
    /\ UNCHANGED <<route, browserVars, storeVars>>

(* lines 253-255: the fetch started by Retry fails *)
RetryFails ==
    /\ editor.retry # 0
    /\ editor' = [editor EXCEPT !.retry = 0, !.loadError = TRUE]
    /\ UNCHANGED <<route, browserVars, storeVars>>

(* lines 35-52: the user edits; onUpdate replaces the pending timer by one
   that carries the id and the markdown of this edit *)
onUpdate(x) ==
    /\ editor.currentDocument # 0
    /\ editor.content # x
    /\ editor' = [editor EXCEPT
                     !.content = x,
                     !.saveTimeout = [set |-> TRUE, id |-> editor.currentDocument,
                                      markdown |-> x],
                     !.typed[editor.currentDocument] = x,
                     !.edited[editor.currentDocument] = TRUE,
                     !.dirty[editor.currentDocument] = TRUE]
    /\ UNCHANGED <<route, browserVars, storeVars>>

(* setSaveStatus('saving'); saveContent(id, content): the request leaves *)
Saved(id, content) ==
    [editor EXCEPT !.saveTimeout = NoTimer,
                   !.sent = [id |-> id, content |-> content],
                   !.dirty[id] = IF editor.typed[id] = content THEN FALSE ELSE @,
                   !.saves = @ \cup {[id |-> id, content |-> content, at |-> 0]},
                   !.saveStatus = "saving"]

(* lines 45-51: one second has passed without another edit *)
TimerFire ==
    /\ editor.saveTimeout.set
    /\ editor' = Saved(editor.saveTimeout.id, editor.saveTimeout.markdown)
    /\ UNCHANGED <<route, browserVars, storeVars>>

(* lines 99-111: Ctrl+S saves what the editor holds now *)
handleSave ==
    /\ editor.currentDocument # 0
    /\ editor' = Saved(editor.currentDocument, editor.content)
    /\ UNCHANGED <<route, browserVars, storeVars>>

(* api/client.ts updateDocumentContent: the PUT reaches the server, which
   takes it as step 1 of setContent when no other call works on the document *)
updateDocumentContent(p, s) ==
    /\ s \in editor.saves
    /\ s.at = 0
    /\ req[p].pc = "idle"
    /\ doc_free(s.id)
    /\ documents[s.id] # NoRow
    /\ has_content(documents[s.id].user_id, s.id)
    /\ req' = Busy(p, "setContent", documents[s.id].user_id, s.id, s.content, "sc_snapshot",
                   read_markdown(files, documents[s.id].file_path))
    /\ resp' = NoResp
    /\ editor' = [editor EXCEPT !.saves = (@ \ {s}) \cup {[s EXCEPT !.at = p]}]
    /\ UNCHANGED <<route, browserVars, documents, files, documents_fts, document_versions,
                   nextDoc, started, now, folders, tags, document_tags, inconsistencies,
                   lastSet, issued, lastAuto, detached, writing_sessions>>

(* What follows `await saveContent(...)`, Editor.tsx lines 48-50 and 108-110 *)
AfterSave(s, outcome) ==
    [editor EXCEPT !.saves = @ \ {s},
                   !.saveStatus = "saved",
                   !.savedTimer = TRUE,
                   !.outcome = outcome,
                   !.lost = IF outcome = "failed" THEN TRUE ELSE @]

(* documentStore.ts lines 118-120: the request fails, saveContent catches the
   error and returns *)
saveContentCaught(s) ==
    /\ s \in editor.saves
    /\ s.at = 0
    /\ editor' = AfterSave(s, "failed")
    /\ UNCHANGED <<route, browserVars, storeVars>>

(* documentStore.ts line 117: the server has answered, saveContent returns *)
saveContentResolved(s) ==
    /\ s \in editor.saves
    /\ s.at \in Procs
    /\ req[s.at].pc = "idle"
    /\ editor' = AfterSave(s, "accepted")
    /\ UNCHANGED <<route, browserVars, storeVars>>

(* lines 50 and 110: two seconds after a save returned *)
savedTimerFire ==
    /\ editor.savedTimer
    /\ editor' = [editor EXCEPT !.saveStatus = "idle", !.savedTimer = FALSE]
    /\ UNCHANGED <<route, browserVars, storeVars>>

NextE ==
    \/ \E d \in DocIds : OpenDocument(d)
    \/ CloseDocument
    \/ LoadDone
    \/ \E x \in CoreTexts : onUpdate(x)
    \/ TimerFire
    \/ handleSave
    \/ nextDoc = 2 /\ \E t \in CoreTitles : CD_Write(1, "A", t, 0)
    \/ CD_Insert(1)

(* The timer, once set, fires unless it is cleared *)
FairSpecE == InitV /\ [][NextE]_vars /\ WF_vars(TimerFire)

(* The editor on a document that has content: saves leave, reach the server in
   any order or fail on the way, and return *)
SaveRequests == {[id |-> d, content |-> x, at |-> a] : d \in DocIds, x \in Texts, a \in {0} \cup Procs}

NextS ==
    \/ OpenDocument(1)
    \/ LoadDone
    \/ onUpdate(TextHiHo)
    \/ TimerFire
    \/ handleSave
    \/ \E s \in SaveRequests : updateDocumentContent(1, s)
    \/ SC_Snapshot(1)
    \/ SC_Write(1)
    \/ SC_Meta(1)
    \/ SC_Index(1)
    \/ \E s \in SaveRequests : saveContentResolved(s) \/ saveContentCaught(s)
    \/ savedTimerFire

SpecS == InitX /\ [][NextS]_vars

(* The editor and several documents: content fetches end in any order, the
   user saves with Ctrl+S *)
MaxFetches == 2

(* documentStore.ts lines 50-52: loadDocument(id) sets loading and sends
   GET /documents/{id}.  fetches counts the requests under way per document;
   asked is history, the id of the last call *)
loadDocument(d) ==
    /\ editor.fetches[d] < MaxFetches
    /\ editor' = [editor EXCEPT !.fetches[d] = @ + 1,
                                !.storeLoading = TRUE,
                                !.asked = d]
    /\ UNCHANGED <<route, browserVars, storeVars>>

(* documentStore.ts lines 53-54: an answer arrives and becomes
   currentDocument; Editor.tsx lines 42-77: the editor follows a change of
   document as in OpenDocument *)
loadDocumentDone(d) ==
    /\ editor.fetches[d] > 0
    /\ documents[d] # NoRow
    /\ editor' = IF editor.currentDocument = d
                 THEN [editor EXCEPT !.fetches[d] = @ - 1,
                                     !.storeLoading = FALSE]
                 ELSE [editor EXCEPT !.fetches[d] = @ - 1,
                                     !.storeLoading = FALSE,
                                     !.currentDocument = d,
                                     !.saveTimeout = NoTimer,
                                     !.content = << >>,
                                     !.loading = d,
                                     !.loadError = FALSE,
                                     !.shown = 0]
    /\ UNCHANGED <<route, browserVars, storeVars>>

(* documentStore.ts lines 55-57: the request fails; fetchFailed is history *)
loadDocumentFails(d) ==
    /\ editor.fetches[d] > 0
    /\ editor' = [editor EXCEPT !.fetches[d] = @ - 1,
                                !.storeLoading = FALSE,
                                !.fetchFailed = TRUE]
    /\ UNCHANGED <<route, browserVars, storeVars>>

NextD ==
    \/ \E d \in DocIds : loadDocument(d)
    \/ \E d \in DocIds : loadDocumentDone(d)
    \/ \E d \in DocIds : loadDocumentFails(d)
    \/ \E t \in CoreTitles : CD_Write(1, "A", t, 0)
    \/ CD_Insert(1)

SpecD == InitX /\ [][NextD]_vars

NextL ==
    \/ \E d \in DocIds : OpenDocument(d)
    \/ CloseDocument
    \/ LoadDone
    \/ LoadFails
    \/ Retry
    \/ RetryDone
    \/ RetryFails
    \/ handleSave
    \/ \E t \in CoreTitles : CD_Write(1, "A", t, 0)
    \/ CD_Insert(1)

SpecL == InitX /\ [][NextL]_vars

----------------------------------------------------------------------------
(* Properties *)

Live(d) == documents[d] # NoRow

InFlight(p, d) == req[p].pc # "idle" /\ req[p].doc = d

Quiescent(d) == \A p \in Procs : ~InFlight(p, d)

Logged(d, kind) == [doc |-> d, kind |-> kind] \in inconsistencies

FileText(d) == files[documents[d].file_path].content

(* C1: read-your-write. getContent, issued after a setContent(X) that returned
   successfully and with no later content write of the same document, returns
   exactly X. *)
ReadYourWrite ==
    (resp.op = "getContent" /\ resp.status = "ok" /\ lastSet[resp.doc].returned)
        => resp.body = lastSet[resp.doc].text

ReadYourWriteSeen ==
    /\ resp.op = "getContent"
    /\ resp.status = "ok"
    /\ lastSet[resp.doc].returned
    /\ resp.body = TextHiHo

----------------------------------------------------------------------------
(* C2: owner isolation. No reply to one user contains a document, content,
   version, search hit, folder or tag of another user; addressing another
   user's id is answered NotFound; and no step taken for one user changes the
   rows, files, versions or search entries of another. *)

DocOps == {"createDocument", "getContent", "setContent", "deleteDocument",
           "updateDocumentMeta", "listVersions", "snapshotNow"}

ResultsScoped ==
    /\ (resp.op \in DocOps /\ resp.doc \in DocIds /\ Live(resp.doc)
            /\ documents[resp.doc].user_id # resp.owner)
          => resp.status = "NotFound"
    /\ (resp.op = "getContent" /\ resp.status = "ok")
          => /\ Live(resp.doc)
             /\ documents[resp.doc].user_id = resp.owner
             /\ resp.body = FileText(resp.doc)
    /\ (resp.op = "listVersions" /\ resp.status = "ok")
          => resp.body = {v.version_number :
                             v \in {w \in document_versions :
                                       /\ w.document_id = resp.doc
                                       /\ documents[w.document_id].user_id = resp.owner}}
    /\ (resp.op = "search" /\ resp.status = "ok")
          => \A d \in resp.body : Live(d) /\ documents[d].user_id = resp.owner
    /\ resp.op = "listFolders"
          => \A f \in resp.body : folders[f] # NoRow /\ folders[f].user_id = resp.owner
    /\ resp.op = "listTags"
          => \A t \in resp.body : tags[t] # NoRow /\ tags[t].user_id = resp.owner
    /\ (resp.op = "deleteFolder" /\ folders[resp.doc] # NoRow)
          => resp.status = "NotFound" /\ folders[resp.doc].user_id # resp.owner
    /\ (resp.op = "deleteTag" /\ tags[resp.doc] # NoRow)
          => resp.status = "NotFound" /\ tags[resp.doc].user_id # resp.owner

Owned(b) ==
    [docs |-> {<<d, documents[d], files[documents[d].file_path], documents_fts[d]>> :
                  d \in {e \in DocIds : Live(e) /\ documents[e].user_id = b}},
     versions |-> {v \in document_versions :
                      Live(v.document_id) /\ documents[v.document_id].user_id = b},
     folders |-> {<<f, folders[f]>> : f \in OwnFolders(b)},
     tags |-> {<<t, tags[t]>> : t \in OwnTags(b)}]

(* The user on whose behalf the step is taken *)
Actor ==
    IF \E p \in Procs : req'[p] # req[p]
    THEN LET p == CHOOSE q \in Procs : req'[q] # req[q]
         IN  IF req[p].pc # "idle" THEN req[p].owner ELSE req'[p].owner
    ELSE resp'.owner

OwnerIsolation ==
    [][ /\ ResultsScoped'
        /\ \A b \in Owners : b # Actor => Owned(b)' = Owned(b) ]_vars

OwnerIsolationSeen ==
    /\ resp.op = "getContent"
    /\ resp.status = "NotFound"
    /\ resp.doc \in DocIds
    /\ Live(resp.doc)
    /\ documents[resp.doc].user_id # resp.owner
    /\ FileText(resp.doc) = TextHiHo

----------------------------------------------------------------------------
(* C3: a setContent that fails at the write to the content store leaves the
   metadata row (word_count, char_count, excerpt) untouched and the prior
   content intact: the content read next is the content from before the call. *)
FailedWriteLeavesDocument ==
    [][ \A p \in Procs :
          (req[p].pc = "sc_write" /\ req'[p].pc = "idle"
              /\ resp'.status = "StorageIOError")
            => /\ documents' = documents
               /\ files' = files
               /\ documents'[req[p].doc] # NoRow
               /\ files'[documents'[req[p].doc].file_path] # Absent
               /\ files'[documents'[req[p].doc].file_path].content = req[p].prev
               /\ ~Logged(req[p].doc, "counts")
                     => /\ documents'[req[p].doc].word_count = count_words(req[p].prev)
                        /\ documents'[req[p].doc].char_count = count_chars(req[p].prev)
                        /\ documents'[req[p].doc].excerpt = make_excerpt(req[p].prev) ]_vars

FailedWriteSeen ==
    /\ resp.op = "setContent"
    /\ resp.status = "StorageIOError"
    /\ Live(resp.doc)
    /\ FileText(resp.doc) = TextHi
    /\ documents[resp.doc].char_count = 2

----------------------------------------------------------------------------
(* C4: no lost update. At most one mutating sequence is in flight per
   document; when none is, the content is the text of one call, and the
   counts, the excerpt and the search entry derive from that same text
   (unless a step logged an inconsistency that is still outstanding). *)
NoLostUpdate ==
    /\ \A p, q \in Procs, d \in DocIds :
          (InFlight(p, d) /\ InFlight(q, d)) => p = q
    /\ \A d \in DocIds :
          (Live(d) /\ Quiescent(d))
            => /\ files[documents[d].file_path] # Absent
               /\ FileText(d) = lastSet[d].text
               /\ ~Logged(d, "counts")
                     => /\ documents[d].word_count = count_words(FileText(d))
                        /\ documents[d].char_count = count_chars(FileText(d))
                        /\ documents[d].excerpt = make_excerpt(FileText(d))
               /\ (documents_fts[d] # NoEntry /\ ~Logged(d, "search"))
                     => documents_fts[d].content = FileText(d)

NoLostUpdateSeen ==
    /\ resp.op = "setContent"
    /\ resp.status = "ok"
    /\ resp.body = TextHiHo
    /\ started = 3
    /\ nextDoc = 2
    /\ documents[1].char_count = 5
    /\ documents_fts[1] # NoEntry
    /\ \E v \in document_versions : v.content = TextEmpty
    /\ \E p \in Procs : req[p].pc = "idle" /\ req[p] = Idle

----------------------------------------------------------------------------
(* C5: deletion is final and idempotent. A deleteDocument that returns
   successfully leaves no row and no file; deleting a document that is not
   there answers NotFound and changes nothing; a deletion is only ever started
   on a live row; and the content store's delete of an absent path succeeds
   without effect. *)
DeleteIsFinal ==
    [][ /\ (resp'.op = "deleteDocument" /\ resp'.status = "ok")
              => /\ documents'[resp'.doc] = NoRow
                 /\ files'[resp'.doc] = Absent
        /\ (resp'.op = "deleteDocument" /\ resp'.status = "NotFound")
              => /\ \/ documents[resp'.doc] = NoRow
                    \/ documents[resp'.doc].user_id # resp'.owner
                 /\ <<documents, files, documents_fts, document_versions>>'
                        = <<documents, files, documents_fts, document_versions>>
        /\ \A p \in Procs :
              (req[p].pc = "idle" /\ req'[p].op = "deleteDocument")
                  => documents[req'[p].doc] # NoRow
        /\ \A path \in DocIds :
              files'[path] = Absent => delete_markdown(files', path) = files' ]_vars

(* a second deleteDocument of a document that had been edited and deleted *)
DeleteTwiceSeen ==
    /\ resp.op = "deleteDocument"
    /\ resp.status = "NotFound"
    /\ documents[resp.doc] = NoRow
    /\ files[resp.doc] = Absent
    /\ issued[resp.doc] > 0

----------------------------------------------------------------------------
(* C6: a search entry exists for an id if and only if a live document has
   that id: after every completed createDocument, setContent,
   updateDocumentMeta and deleteDocument, with nothing else in flight and no
   inconsistency outstanding, the indexed ids are the live ids. *)
IndexedIds == {d \in DocIds : documents_fts[d] # NoEntry}

LiveIds == {d \in DocIds : Live(d)}

SearchEntryIffLive ==
    (/\ resp.op \in {"createDocument", "setContent", "updateDocumentMeta",
                     "deleteDocument"}
     /\ resp.status = "ok"
     /\ \A p \in Procs : req[p].pc = "idle"
     /\ inconsistencies = {})
        => IndexedIds = LiveIds

----------------------------------------------------------------------------
(* C7: the index never holds an entry for an id that has no row, in every
   reachable state: between the steps of a deletion, after a failed step,
   with a setContent and a deleteDocument of the same document racing.  Once
   deleteDocument has returned, no search returns the document. *)
NoOrphanSearchEntry ==
    /\ \A d \in DocIds : documents_fts[d] # NoEntry => Live(d)
    /\ (resp.op = "deleteDocument" /\ resp.status = "ok")
          => \A q \in Queries : resp.doc \notin SearchHits(resp.owner, q)
    /\ (resp.op = "search" /\ resp.status = "ok")
          => \A d \in resp.body : Live(d)

(* a deletion between its steps (row gone, file still there), while the
   other connection is in the middle of a request of its own *)
MidDeleteSeen ==
    \E p, q \in Procs :
        /\ req[p].op = "deleteDocument"
        /\ req[p].pc = "dd_file"
        /\ documents[req[p].doc] = NoRow
        /\ files[req[p].doc] # Absent
        /\ q # p
        /\ req[q].pc # "idle"

----------------------------------------------------------------------------
(* C8: a new version gets version_number 1 + the highest stored number of its
   document (1 if none is stored); numbers strictly increase in creation
   order, stay as they are when older versions are deleted, and are never
   used twice. *)
VersionNumbering ==
    [][ \A d \in DocIds :
          LET old == VersionsOf(document_versions, d)
              new == VersionsOf(document_versions', d)
              nums == {v.version_number : v \in old}
          IN  /\ Cardinality(new \ old) <= 1
              /\ \A v \in new \ old :
                    /\ v.version_number = IF old = {} THEN 1 ELSE 1 + MaxOf(nums)
                    /\ v.version_number > issued[d]
                    /\ \A w \in old : /\ w.version_number < v.version_number
                                      /\ w.created_at <= v.created_at
              /\ \A v, w \in new : v.version_number = w.version_number => v = w ]_vars

(* version 3 is stored and version 1 has been deleted by retention *)
VersionNumberingSeen ==
    \E v \in document_versions :
        /\ v.version_number = 3
        /\ 1 \notin VersionNumbers(document_versions, v.document_id)

----------------------------------------------------------------------------
(* C9: retention. A document never has more than the maximum number of
   versions stored; once more than the maximum have been created, exactly the
   maximum are listed and they are the highest numbers; only the oldest are
   deleted. *)
TopNumbers(d) ==
    {n \in 1 .. issued[d] : n > issued[d] - MaxVersions}

RetainedTop ==
    /\ \A d \in DocIds :
          /\ Cardinality(VersionsOf(document_versions, d)) <= MaxVersions
          /\ Live(d) => VersionNumbers(document_versions, d) = TopNumbers(d)
    /\ (resp.op = "listVersions" /\ resp.status = "ok"
            /\ issued[resp.doc] > MaxVersions)
          => /\ Cardinality(resp.body) = MaxVersions
             /\ resp.body = TopNumbers(resp.doc)

Retention ==
    [][ /\ RetainedTop'
        /\ \A d \in DocIds :
              \A gone \in VersionsOf(document_versions, d) \ document_versions' :
                  \/ documents'[d] = NoRow
                  \/ \A kept \in VersionsOf(document_versions', d) :
                        gone.version_number < kept.version_number ]_vars

RetentionSeen ==
    /\ resp.op = "listVersions"
    /\ resp.status = "ok"
    /\ issued[resp.doc] = MaxVersions + 1
    /\ Cardinality(resp.body) = MaxVersions
    /\ 1 \notin resp.body

----------------------------------------------------------------------------
(* C10: throttling. setContent creates a version only when the document has
   none or when every stored version is older than the minimum interval; two
   setContent calls less than the minimum interval apart create at most one
   version between them. *)
Throttling ==
    [][ \A p \in Procs :
          (req[p].pc = "sc_snapshot" /\ req'[p].pc = "sc_write"
              /\ document_versions' # document_versions)
            => /\ \A v \in VersionsOf(document_versions, req[p].doc) :
                      now - v.created_at > MinInterval
               /\ lastAuto[req[p].doc] = -1
                     \/ now - lastAuto[req[p].doc] > MinInterval ]_vars

(* a changing edit went past the snapshot step without a new version *)
ThrottledSeen ==
    \E p \in Procs :
        /\ req[p].pc = "sc_write"
        /\ req[p].prev # req[p].arg
        /\ VersionsOf(document_versions, req[p].doc) # {}
        /\ \A v \in VersionsOf(document_versions, req[p].doc) : v.content # req[p].prev
        /\ lastAuto[req[p].doc] = now

----------------------------------------------------------------------------
(* C11: snapshotNow does not consult the interval; it creates no version and
   answers "no changes" when the content is byte-identical to the content of
   the latest version, and otherwise stores exactly one version of the
   current content; right after a snapshotNow the latest version is the
   current content, so a second call with no edit in between creates none. *)
LatestIs(vs, d, text) ==
    /\ VersionsOf(vs, d) # {}
    /\ \E v \in VersionsOf(vs, d) :
          /\ v.content = text
          /\ \A w \in VersionsOf(vs, d) : w.version_number <= v.version_number

SnapshotNowRule ==
    [][ (resp'.op = "snapshotNow" /\ resp'.status # "NotFound")
          => LET d == resp'.doc
                 text == files[documents[d].file_path].content
             IN  /\ files' = files
                 /\ LatestIs(document_versions', d, text)
                 /\ IF LatestIs(document_versions, d, text)
                    THEN /\ resp'.status = "no changes"
                         /\ document_versions' = document_versions
                    ELSE /\ resp'.status = "created"
                         /\ Cardinality(document_versions' \ document_versions) = 1
                         /\ \A v \in document_versions' \ document_versions :
                               /\ v.document_id = d
                               /\ v.content = text
                               /\ v.created_at = now ]_vars

(* a forced snapshot was stored within the interval of the version before it,
   and the call after it answered "no changes" *)
SnapshotNowSeen ==
    /\ resp.op = "snapshotNow"
    /\ resp.status = "no changes"
    /\ \E v, w \in VersionsOf(document_versions, resp.doc) :
          /\ v.version_number < w.version_number
          /\ w.created_at - v.created_at <= MinInterval
          /\ w.content = FileText(resp.doc)
          /\ w.content # TextEmpty

----------------------------------------------------------------------------
(* C12: in every reachable state a document and its folder, a folder and its
   parent, and both ends of every document-tag link have the same owner: a
   write that would link rows of different owners is rejected. *)
SameOwnerLinks ==
    /\ \A d \in DocIds :
          (documents[d] # NoRow /\ folder_ref_ok(folders, documents[d].folder_id)
              /\ documents[d].folder_id # 0)
            => folders[documents[d].folder_id].user_id = documents[d].user_id
    /\ \A f \in 1 .. Len(folders) :
          (folders[f] # NoRow /\ folder_ref_ok(folders, folders[f].parent_id)
              /\ folders[f].parent_id # 0)
            => folders[folders[f].parent_id].user_id = folders[f].user_id
    /\ \A l \in document_tags :
          (documents[l.document_id] # NoRow /\ tags[l.tag_id] # NoRow)
            => documents[l.document_id].user_id = tags[l.tag_id].user_id

----------------------------------------------------------------------------
(* C13: no existence leakage. An operation that addresses a document, a
   folder or a tag by an id that is not the caller's answers NotFound and
   changes nothing, whether the id belongs to another owner or to nobody, so
   the two cases cannot be told apart; a createDocument whose folder_id is not
   the caller's is not carried out, whoever the folder belongs to. *)
DocByIdOps ==
    {"getContent", "setContent", "deleteDocument", "updateDocumentMeta", "moveDocument",
     "listVersions", "snapshotNow", "attachTag", "detachTag", "listDocumentTags"}

AllIdle == \A p \in Procs : req[p].pc = "idle"

NotOwnTag(o, t) ==
    IF t \in 1 .. Len(tags) THEN (tags[t] = NoRow \/ tags[t].user_id # o) ELSE TRUE

NoExistenceLeak ==
    [][ /\ (AllIdle /\ resp'.op \in DocByIdOps
              /\ get_document(documents, resp'.owner, resp'.doc) = NoRow)
            => /\ resp'.status = "NotFound"
               /\ <<documents, files, documents_fts, document_versions, document_tags>>'
                     = <<documents, files, documents_fts, document_versions, document_tags>>
        /\ (AllIdle /\ resp'.op \in {"updateFolder", "deleteFolder"}
              /\ get_folder(folders, resp'.owner, resp'.doc) = NoRow)
            => resp'.status = "NotFound" /\ folders' = folders
        /\ (resp'.op = "deleteTag" /\ NotOwnTag(resp'.owner, resp'.doc))
            => resp'.status = "NotFound" /\ tags' = tags
        /\ \A p \in Procs :
              (req[p].pc = "cd_insert" /\ req'[p].pc = "idle" /\ req[p].folder # 0
                  /\ get_folder(folders, req[p].owner, req[p].folder) = NoRow)
                => resp'.status # "ok" /\ documents' = documents ]_vars

----------------------------------------------------------------------------
(* C14: no folder is its own ancestor, in every reachable state; an
   updateFolder whose parent_id is the folder itself or a folder below it is
   answered Conflict and leaves the folders as they are, also with two
   updateFolder calls on different folders in flight at once. *)
FolderInOwnChain(f) ==
    /\ folders[f] # NoRow
    /\ f \in Walk(folders, folders[f].parent_id, Len(folders))

NoFolderCycle ==
    [][ /\ \A f \in 1 .. Len(folders') : ~FolderInOwnChain(f)'
        /\ (resp'.op = "updateFolder" /\ resp'.status = "Conflict")
              => folders' = folders ]_vars

----------------------------------------------------------------------------
(* C15: deleteFolder deletes only the folder row.  Every child folder gets
   parent_id = null, every document in the folder gets folder_id = null, and
   nothing else changes: no document row is created or deleted, no other
   field of a row, no content file, no version, no search entry, no tag. *)
DeleteFolderFrame ==
    [][ (resp'.op = "deleteFolder" /\ resp'.status = "ok")
          => LET f == resp'.doc
             IN  /\ Len(folders') = Len(folders)
                 /\ folders'[f] = NoRow
                 /\ \A g \in (1 .. Len(folders)) \ {f} :
                       folders'[g] =
                          IF folders[g] # NoRow /\ folders[g].parent_id = f
                          THEN [folders[g] EXCEPT !.parent_id = 0]
                          ELSE folders[g]
                 /\ \A d \in DocIds :
                       documents'[d] =
                          IF documents[d] # NoRow /\ documents[d].folder_id = f
                          THEN [documents[d] EXCEPT !.folder_id = 0]
                          ELSE documents[d]
                 /\ <<files, documents_fts, document_versions, tags, document_tags>>'
                       = <<files, documents_fts, document_versions, tags, document_tags>> ]_vars

(* the deleted folder held one document and one subfolder; both are still
   there, at the root, and the document's file is in place *)
DeleteFolderSeen ==
    /\ resp.op = "deleteFolder"
    /\ resp.status = "ok"
    /\ detached.folder = resp.doc
    /\ \E d \in detached.documents :
          /\ documents[d] # NoRow
          /\ documents[d].folder_id = 0
          /\ files[documents[d].file_path] # Absent
    /\ \E g \in detached.folders :
          /\ folders[g] # NoRow
          /\ folders[g].parent_id = 0

----------------------------------------------------------------------------
(* C16: tag names are unique per owner, not globally.  A createTag or a
   rename is answered Conflict exactly when the same owner already has another
   tag of that name, and then changes nothing; a tag of that name held by a
   different owner does not stand in the way. *)
OwnTagNamed(o, n, except) ==
    \E u \in OwnTags(o) \ {except} : tags[u].name = n

TagNamePerOwner ==
    [][ (resp'.op \in {"createTag", "updateTag"} /\ resp'.status # "NotFound")
          => /\ resp'.status = "Conflict"
                   <=> OwnTagNamed(resp'.owner, resp'.body,
                                   IF resp'.op = "updateTag" THEN resp'.doc ELSE 0)
             /\ resp'.status = "Conflict" => tags' = tags ]_vars

----------------------------------------------------------------------------
(* C17: a createDocument without a title is named "Untitled" when no document
   of the same owner in the same folder has exactly that title, and otherwise
   "Untitled_k" for the lowest k >= 2 that is unused there; documents of
   other owners and of other folders play no part. *)
SameOwnerFolder(o, f) ==
    {d \in DocIds : /\ documents[d] # NoRow
                    /\ documents[d].user_id = o
                    /\ documents[d].folder_id = f}

UnusedHere(o, f, k) == \A d \in SameOwnerFolder(o, f) : documents[d].title # untitled_k(k)

TitleDefaulting ==
    [][ \A p \in Procs, o \in Owners, f \in 0 .. MaxFolders :
          CD_WriteUntitled(p, o, f)
             => LET k == CHOOSE j \in 1 .. MaxDocs + 1 :
                            /\ UnusedHere(o, f, j)
                            /\ \A i \in 1 .. j - 1 : ~UnusedHere(o, f, i)
                IN  req'[p].arg = untitled_k(k) ]_vars

(* "Untitled" and "Untitled_2" were there, the third is "Untitled_3" *)
TitleDefaultingSeen ==
    \E o \in Owners, f \in 0 .. MaxFolders :
        {untitled_k(1), untitled_k(2), untitled_k(3)}
            \subseteq {documents[d].title : d \in SameOwnerFolder(o, f)}

(* A name in use by another owner or in another folder is given again *)
TitleScopeSeen ==
    \E d, e \in DocIds :
        /\ documents[d] # NoRow /\ documents[e] # NoRow /\ d < e
        /\ documents[d].title = Untitled /\ documents[e].title = Untitled
        /\ \/ documents[d].user_id # documents[e].user_id
           \/ documents[d].folder_id # documents[e].folder_id

----------------------------------------------------------------------------
(* What a search finds when the entry of d is derived from the row's title and
   the file's text *)
DerivedEntry(d) == [title |-> documents[d].title, content |-> FileText(d)]

SearchFollowsTitle(d) ==
    \A q \in TitleQueries :
        d \in SearchHits(documents[d].user_id, q) <=> Matches(DerivedEntry(d), q)

MetaReplied(p, d) ==
    /\ req[p].pc = "um_index"
    /\ resp'.op = "updateDocumentMeta"
    /\ resp'.status = "ok"
    /\ resp'.doc = d

(* C18 as stated: once updateDocumentMeta has changed the title and replied,
   the search entry is the one derived from the new title and the committed
   content: a word of the new title finds the document, a word only the old
   title had does not. *)
TitleReindexedAlways ==
    [][ \A p \in Procs, d \in DocIds : MetaReplied(p, d) => SearchFollowsTitle(d)' ]_vars

(* C18: once updateDocumentMeta has changed the title and replied, either the
   search entry is the one derived from the new title and the committed
   content, or the re-index step failed: then the entry is as it was before
   and a search inconsistency is on record for the document. *)
TitleReindexed ==
    [][ \A p \in Procs, d \in DocIds :
          MetaReplied(p, d)
             => \/ SearchFollowsTitle(d)'
                \/ /\ Logged(d, "search")'
                   /\ documents_fts' = documents_fts ]_vars

(* The document was re-titled "yo" after its text was committed and the word
   yo finds it *)
TitleReindexedSeen ==
    /\ resp.op = "updateDocumentMeta" /\ resp.status = "ok"
    /\ documents[1].title = <<"y", "o">>
    /\ FileText(1) # TextEmpty
    /\ ~Logged(1, "search")
    /\ 1 \in SearchHits("A", [term |-> <<"y", "o">>, prefix |-> FALSE])

----------------------------------------------------------------------------
(* C19 as stated: an authFetch call that gets 401 while an access token and a
   refresh token are stored posts the refresh token to /auth/refresh; when
   that succeeds the new pair is stored and the request is sent once more
   with the new access token; when the request still cannot be authorized
   (the refresh fails, or the second answer is 401 again) both stored tokens
   are removed and the browser is sent to /login. *)
TokenRefresh ==
    [][ \A p \in Procs :
          /\ ( /\ calls[p].pc = "fetch" /\ calls[p].wrapped
               /\ calls'[p] # calls[p]
               /\ StatusFor(calls[p].auth) = 401
               /\ calls[p].token # 0
               /\ localStorage.refresh_token # 0 )
                => /\ calls'[p].pc = "refresh"
                   /\ calls'[p].refreshToken = localStorage.refresh_token
          /\ ( calls[p].pc = "refresh" /\ calls'[p].pc = "refetch" )
                => /\ localStorage'.access_token \in sessions'.access \ sessions.access
                   /\ localStorage'.refresh_token \in sessions'.refresh \ sessions.refresh
                   /\ calls'[p].auth = localStorage'.access_token
          /\ ( /\ calls[p].pc \in {"refresh", "refetch"}
               /\ calls'[p].pc = "returned"
               /\ calls'[p].status = 401 )
                => /\ localStorage' = NoTokens
                   /\ location' = "/login" ]_vars

(* C20 as stated: while an access token is stored, every request the browser
   sends to an endpoint other than /auth/* and /health carries
   Authorization: Bearer <the stored access token>. *)
BearerOnEveryRequest ==
    [][ \A p \in Procs :
          ( /\ calls'[p] # calls[p]
            /\ calls'[p].pc \in {"fetch", "refetch"}
            /\ localStorage'.access_token # 0 )
             => calls'[p].auth = localStorage'.access_token ]_vars

----------------------------------------------------------------------------
(* C21 as stated: every edit made while a document is open is eventually sent
   by saveContent for that document, whatever the user does afterwards,
   switching to another document or closing the document before the debounce
   timer fires included: a document whose last typed text is owed a save
   eventually is not. *)
EditsReachServer ==
    \A d \in DocIds : editor.dirty[d] ~> ~editor.dirty[d]

----------------------------------------------------------------------------
HasTokens == localStorage.access_token # 0 /\ localStorage.refresh_token # 0

(* C22: ProtectedRoute sends the browser to /login only when no session
   tokens are stored: when a freshly loaded route makes up its mind (the first
   render after its effect), it renders its children only if both tokens are
   in localStorage and the redirect only if they are not; before that it
   renders neither. *)
RouteGuard ==
    [][ /\ ( route.shown = "unmounted" /\ route'.shown # "unmounted" )
             => route'.shown = "null" /\ location' = location
        /\ ( route.shown = "null" /\ route'.shown \in {"children", "navigate"} )
             => /\ route'.shown = "children" => HasTokens
                /\ route'.shown = "navigate" => ~HasTokens /\ location' = "/login" ]_vars

(* The page was loaded with the stored pair and shows the children *)
RouteGuardSeen ==
    /\ route.shown = "children"
    /\ route.initialized
    /\ sessions.next = 2
    /\ HasTokens

----------------------------------------------------------------------------
RowsHaveFiles ==
    \A d \in DocIds : documents[d] # NoRow => file_exists(files, documents[d].file_path)

(* C23: a createDocument whose empty-file write fails returns the failure and
   leaves no trace in the registry: the rows are the ones from before the
   call, so a listing shows no new document, and no row names a content path
   without a file. *)
CreateFailureLeavesNoRow ==
    [][ (resp'.op = "createDocument" /\ resp'.status = "StorageIOError")
          => /\ documents' = documents
             /\ documents'[resp'.doc] = NoRow
             /\ RowsHaveFiles' ]_vars

(* A create failed at its write while another document is live *)
CreateFailureSeen ==
    /\ resp.op = "createDocument"
    /\ resp.status = "StorageIOError"
    /\ \E d \in DocIds : documents[d] # NoRow

(* C24 as stated: createDocument inserts the registry row first and only then
   writes the empty content file: no file comes into being at a path that no
   row names yet. *)
RowBeforeFile ==
    [][ \A d \in DocIds :
          (~file_exists(files, d) /\ file_exists(files', d))
             => \E e \in DocIds : documents[e] # NoRow /\ documents[e].file_path = d ]_vars

(* C25: deleteDocument removes the search entry, then the row, then the file.
   A row is only deleted when its search entry is gone and a file only when
   no row names it, so wherever the deletion stops no row refers to a
   content path without a file; what can be left is a file without a row. *)
DeleteOrder ==
    [][ /\ \A d \in DocIds :
              /\ (documents[d] # NoRow /\ documents'[d] = NoRow)
                    => documents_fts[d] = NoEntry
              /\ (file_exists(files, d) /\ ~file_exists(files', d))
                    => \A e \in DocIds : documents[e] = NoRow \/ documents[e].file_path # d
        /\ RowsHaveFiles' ]_vars

(* A deletion stopped after the row was deleted: the file is an orphan *)
OrphanFileSeen ==
    /\ resp.op = "deleteDocument"
    /\ resp.status = "StorageIOError"
    /\ documents[resp.doc] = NoRow
    /\ file_exists(files, resp.doc)
    /\ \A p \in Procs : req[p].pc = "idle"

----------------------------------------------------------------------------
CountsOf(x) == [word_count |-> count_words(x), char_count |-> count_chars(x),
                excerpt |-> make_excerpt(x)]

Counts(d) == [word_count |-> documents[d].word_count,
              char_count |-> documents[d].char_count,
              excerpt |-> documents[d].excerpt]

(* C26: when a setContent has gone through all of its steps, word_count,
   char_count and excerpt are the ones of the text the content store now
   holds, whatever an earlier edit left behind; and whenever the three change,
   they are derived from text that is already in the content store. *)
CountsFollowContent ==
    [][ \A d \in DocIds :
          /\ ( /\ resp'.op = "setContent" /\ resp'.status = "ok" /\ resp'.doc = d
               /\ resp' # resp
               /\ ~Logged(d, "counts")' )
                => Counts(d)' = CountsOf(FileText(d))'
          /\ ( /\ documents[d] # NoRow /\ documents'[d] # NoRow
               /\ Counts(d)' # Counts(d) )
                => /\ file_exists(files, documents[d].file_path)
                   /\ Counts(d)' = CountsOf(FileText(d)) ]_vars

(* An edit completed and its counts are those of the two words now stored *)
CountsFollowContentSeen ==
    /\ resp.op = "setContent" /\ resp.status = "ok"
    /\ documents[resp.doc] # NoRow
    /\ ~Logged(resp.doc, "counts")
    /\ FileText(resp.doc) = TextHiHo
    /\ documents[resp.doc].word_count = 2

(* C27: once the content store write of a setContent has succeeded the call
   ends with success: a failing metadata update or re-index is recorded as an
   Inconsistency, no step is taken twice, and the content store holds the new
   text when the call returns. *)
WriteDecidesSuccess ==
    [][ \A p \in Procs : \A d \in DocIds : req[p].doc = d =>
          /\ ( req[p].pc = "sc_meta" /\ req'[p] # req[p] )
                => /\ req'[p].pc = "sc_index"
                   /\ files' = files
                   /\ \/ Counts(d)' = CountsOf(req[p].arg)
                      \/ Logged(d, "counts")'
          /\ ( req[p].pc = "sc_index" /\ req'[p] # req[p] )
                => /\ req'[p].pc = "idle"
                   /\ resp'.op = "setContent" /\ resp'.status = "ok"
                   /\ files' = files
                   /\ FileText(d)' = req[p].arg
                   /\ \/ documents_fts'[d]
                            = [title |-> documents'[d].title, content |-> req[p].arg]
                      \/ Logged(d, "search")' ]_vars

(* The call returned success with both inconsistencies on record *)
WriteDecidesSuccessSeen ==
    /\ resp.op = "setContent" /\ resp.status = "ok"
    /\ documents[resp.doc] # NoRow
    /\ Logged(resp.doc, "counts")
    /\ Logged(resp.doc, "search")
    /\ FileText(resp.doc) = resp.body

----------------------------------------------------------------------------
(* C28: however setContent and snapshotNow calls of two connections on one
   document interleave, no two versions of a document carry the same
   version_number, and a forced snapshot that computed its number always
   inserts a version with that number: none fails on a number already taken. *)
VersionNumbersUnique ==
    [][ /\ \A v, w \in document_versions' :
              (v.document_id = w.document_id /\ v.version_number = w.version_number)
                  => v = w
        /\ \A p \in Procs :
              (req[p].pc = "sn_insert" /\ req'[p] # req[p])
                  => /\ resp'.status = "created"
                     /\ \E v \in document_versions' :
                           /\ v.document_id = req[p].doc
                           /\ v.version_number = req[p].number
                           /\ v.content = req[p].prev ]_vars

(* Versions made by an edit and by a forced snapshot stand side by side *)
VersionNumbersUniqueSeen ==
    /\ resp.op = "snapshotNow" /\ resp.status = "created"
    /\ Cardinality(VersionsOf(document_versions, 1)) = 2
    /\ lastAuto[1] >= 0

----------------------------------------------------------------------------
(* C29: a version created by setContent holds the text the content store held
   when that setContent was about to overwrite it, which is the text the call
   read in its first step, with the counts of that text; and a version, once
   created, keeps its content, counts, number and date for as long as it is
   stored. *)
VersionHoldsPrior ==
    [][ /\ \A p \in Procs : \A d \in DocIds :
              (req[p].pc = "sc_snapshot" /\ req[p].doc = d)
                  => \A v \in document_versions' \ document_versions :
                        /\ v.document_id = d
                        /\ v.content = FileText(d)
                        /\ v.content = req[p].prev
                        /\ v.word_count = count_words(FileText(d))
                        /\ v.char_count = count_chars(FileText(d))
        /\ \A v \in document_versions : \A w \in document_versions' :
              (v.document_id = w.document_id /\ v.version_number = w.version_number)
                  => v = w ]_vars

(* The version of an edit holds the one word that the edit replaced by two *)
VersionHoldsPriorSeen ==
    /\ resp.op = "setContent" /\ resp.status = "ok"
    /\ FileText(1) = TextHiHo
    /\ \E v \in document_versions :
          /\ v.document_id = 1
          /\ v.created_at = lastAuto[1]
          /\ v.content = TextHi

----------------------------------------------------------------------------
TagIds == {t \in 1 .. Len(tags) : tags[t] # NoRow}

LiveDocs == {d \in DocIds : documents[d] # NoRow}

(* C30: every document_tags, document_versions and writing_sessions row names
   a document that exists and every document_tags row a tag that exists; the
   step that deletes a document's row leaves no link, version or session of
   it, and the step that deletes a tag leaves no link of it and every
   document as it was. *)
ReferentialIntegrity ==
    [][ /\ \A l \in document_tags' :
              l.document_id \in LiveDocs' /\ l.tag_id \in TagIds'
        /\ \A v \in document_versions' : v.document_id \in LiveDocs'
        /\ \A w \in writing_sessions' : w.document_id \in LiveDocs'
        /\ \A t \in TagIds \ TagIds' : documents' = documents ]_vars

(* The document that had a version, a link and a session is deleted, its tag
   is still there *)
ReferentialIntegritySeen ==
    /\ resp.op = "deleteDocument" /\ resp.status = "ok"
    /\ documents[1] = NoRow
    /\ 1 \in TagIds
    /\ document_tags = {} /\ document_versions = {} /\ writing_sessions = {}

----------------------------------------------------------------------------
(* C31: a step that changes folder_id, is_pinned or is_archived of a document
   and not its title leaves the content store, the document's path, its
   word_count, char_count and excerpt, every version and every search entry
   as they were. *)
MetadataOnly ==
    [][ \A d \in DocIds :
          ( /\ documents[d] # NoRow /\ documents'[d] # NoRow
            /\ \/ documents'[d].folder_id # documents[d].folder_id
               \/ documents'[d].is_pinned # documents[d].is_pinned
               \/ documents'[d].is_archived # documents[d].is_archived
            /\ documents'[d].title = documents[d].title )
          => /\ files' = files
             /\ documents'[d].file_path = documents[d].file_path
             /\ Counts(d)' = Counts(d)
             /\ document_versions' = document_versions
             /\ documents_fts' = documents_fts ]_vars

(* The document with content, a version and a search entry was moved into a
   folder and pinned *)
MetadataOnlySeen ==
    /\ resp.op = "setFlags" /\ resp.status = "ok"
    /\ documents[1] # NoRow
    /\ documents[1].folder_id = 1
    /\ documents[1].is_pinned
    /\ FileText(1) = TextHi
    /\ VersionsOf(document_versions, 1) # {}
    /\ documents_fts[1] # NoEntry

----------------------------------------------------------------------------
(* C32: when every save of a document that the editor issued has returned and
   none has failed, the content store holds the text of the save issued
   last. *)
LastSaveWins ==
    \A d \in DocIds :
        ( /\ editor.sent.id = d
          /\ \A s \in editor.saves : s.id # d
          /\ ~editor.lost
          /\ documents[d] # NoRow )
        => FileText(d) = editor.sent.content

----------------------------------------------------------------------------
(* C33: every save that the editor issues for a document carries either the
   text the user typed last while that document was the current one, or the
   text the content store holds for that document. *)
SavesCarryOwnText ==
    [][ \A s \in editor'.saves \ editor.saves :
          (s.at = 0 /\ documents[s.id] # NoRow)
              => \/ s.content = FileText(s.id)
                 \/ editor.edited[s.id] /\ s.content = editor.typed[s.id] ]_vars

----------------------------------------------------------------------------
(* C34: while a document is the current one, the fetched content the editor
   shows, if any, is that of this document: a response for a document
   selected earlier is not put into the editor. *)
LateFetchDropped ==
    editor.currentDocument # 0 => editor.shown \in {0, editor.currentDocument}

----------------------------------------------------------------------------
(* C39: the status shows 'saved' only when the save that returned last was
   accepted by the server. *)
SavedMeansAccepted ==
    editor.saveStatus = "saved" => editor.outcome = "accepted"

----------------------------------------------------------------------------
(* C35: once a refresh has succeeded, the page is still the application and
   localStorage holds a refresh token the server accepts, the one of the
   last successful refresh. *)
RefreshNotUndone ==
    sessions.next > 2
        => /\ location = "app"
           /\ localStorage.refresh_token = sessions.next - 1
           /\ localStorage.refresh_token \in sessions.refresh

----------------------------------------------------------------------------
(* C36: whenever authStore.isAuthenticated is true, localStorage holds an
   access_token and a refresh_token, and they are the accessToken and the
   refreshToken of the store. *)
StoreMatchesStorage ==
    route.isAuthenticated
        => /\ localStorage.access_token # 0
           /\ localStorage.refresh_token # 0
           /\ localStorage.access_token = route.accessToken
           /\ localStorage.refresh_token = route.refreshToken

----------------------------------------------------------------------------
(* C37: no search request is under way for an empty or whitespace-only query;
   and when no timer is pending and no request is under way, a cleared query
   shows no results and the results shown otherwise are those of the
   query. *)
SearchShowsLastQuery ==
    /\ \A q \in searchBar.requests : trim(q) # << >>
    /\ (~searchBar.debounce.set /\ searchBar.requests = {})
          => IF trim(searchBar.query) = << >>
             THEN ~searchBar.showResults /\ searchBar.results = {}
             ELSE searchBar.showResults => searchBar.of = searchBar.query

----------------------------------------------------------------------------
(* C38: once every loadDocument request has been answered, none of them with
   an error, currentDocument is the document of the last loadDocument call
   and loading is false, in whatever order the answers arrived. *)
LastLoadWins ==
    (/\ editor.asked # 0
     /\ ~editor.fetchFailed
     /\ \A d \in DocIds : editor.fetches[d] = 0)
        => /\ editor.currentDocument = editor.asked
           /\ ~editor.storeLoading

====
